---------------------------- MODULE Spec2Model ----------------------------
(***************************************************************************)
(* A model of pymc3's array step-method contract (step_methods/arraystep), *)
(* of the bounding combinator used by the distributions, and of the        *)
(* covariance parameterisation of distributions/multivariate.              *)
(*                                                                         *)
(* Each subsystem has its own specification (SpecStep, SpecMetrop, ...);   *)
(* the variables of the other subsystems stay at their idle values.        *)
(***************************************************************************)
EXTENDS Integers, Sequences, FiniteSets, TLC

VARIABLES
    stepobj,       \* the constructed step method: cls, vars, generates_stats, allvars, shared
    heap,          \* the point dictionaries that exist, by object id (1..Len(heap))
    shared_value,  \* value held by each shared variable of an ArrayStepShared
    last,          \* the last step() call: argument id, astep's input and result, return
    ms,            \* the last metrop_select call: arguments, uniform draw, return
    made,          \* the last BlockedStep.__new__ call: arguments and what it returned
    bd,            \* a bound(...) call: expression, conditions, flags and the result
    qm,            \* an MvNormal.dist / MvStudentT.dist call: arguments, what
                   \* quaddist_matrix received and what came back
    lp,            \* a logp call of a multivariate normal family: arguments and
                   \* what it returned or raised
    ct,            \* a constructor call (LKJCorr.__init__, KroneckerNormal.dist,
                   \* MatrixNormal.dist): arguments and outcome
    pop,           \* a PopulationArrayStepShared, the population list and the
                   \* link_population call made on them
    wb,            \* a WishartBartlett call: arguments, the auxiliary variables it
                   \* registered, a sample of them and the matrix returned
    qf,            \* a quaddist_chol / quaddist_tau call: delta, the factor handed in,
                   \* the factor used in the solve and what came back
    lk,            \* an _LKJCholeskyCov: the constructor call or the logp call made on
                   \* it, with arguments and outcome
    car,           \* a CARRV.rng_fn call: arguments, the permutation returned by
                   \* reverse_cuthill_mckee, the loop's position and the samples
    tn             \* a step method with or without a tune attribute, and the calls
                   \* of step and stop_tuning made on it so far

step_vars == <<stepobj, heap, shared_value, last>>
metrop_vars == <<ms>>
new_vars == <<made>>
bound_vars == <<bd>>
quad_vars == <<qm>>
logp_vars == <<lp>>
construct_vars == <<ct>>
population_vars == <<pop>>
wishart_vars == <<wb>>
factor_vars == <<qf>>
packed_vars == <<lk>>
car_vars == <<car>>
tune_vars == <<tn>>

vars ==
    <<step_vars, metrop_vars, new_vars, bound_vars, quad_vars, logp_vars, construct_vars,
      population_vars, wishart_vars, factor_vars, packed_vars, car_vars, tune_vars>>

NotStep ==
    <<metrop_vars, new_vars, bound_vars, quad_vars, logp_vars, construct_vars,
      population_vars, wishart_vars, factor_vars, packed_vars, car_vars, tune_vars>>
NotMetrop ==
    <<step_vars, new_vars, bound_vars, quad_vars, logp_vars, construct_vars,
      population_vars, wishart_vars, factor_vars, packed_vars, car_vars, tune_vars>>
NotNew ==
    <<step_vars, metrop_vars, bound_vars, quad_vars, logp_vars, construct_vars,
      population_vars, wishart_vars, factor_vars, packed_vars, car_vars, tune_vars>>
NotBound ==
    <<step_vars, metrop_vars, new_vars, quad_vars, logp_vars, construct_vars,
      population_vars, wishart_vars, factor_vars, packed_vars, car_vars, tune_vars>>
NotQuad ==
    <<step_vars, metrop_vars, new_vars, bound_vars, logp_vars, construct_vars,
      population_vars, wishart_vars, factor_vars, packed_vars, car_vars, tune_vars>>
NotLogp ==
    <<step_vars, metrop_vars, new_vars, bound_vars, quad_vars, construct_vars,
      population_vars, wishart_vars, factor_vars, packed_vars, car_vars, tune_vars>>
NotConstruct ==
    <<step_vars, metrop_vars, new_vars, bound_vars, quad_vars, logp_vars, population_vars,
      wishart_vars, factor_vars, packed_vars, car_vars, tune_vars>>
NotPopulation ==
    <<step_vars, metrop_vars, new_vars, bound_vars, quad_vars, logp_vars, construct_vars,
      wishart_vars, factor_vars, packed_vars, car_vars, tune_vars>>
NotWishart ==
    <<step_vars, metrop_vars, new_vars, bound_vars, quad_vars, logp_vars, construct_vars,
      population_vars, factor_vars, packed_vars, car_vars, tune_vars>>
NotFactor ==
    <<step_vars, metrop_vars, new_vars, bound_vars, quad_vars, logp_vars, construct_vars,
      population_vars, wishart_vars, packed_vars, car_vars, tune_vars>>
NotPacked ==
    <<step_vars, metrop_vars, new_vars, bound_vars, quad_vars, logp_vars, construct_vars,
      population_vars, wishart_vars, factor_vars, car_vars, tune_vars>>
NotCar ==
    <<step_vars, metrop_vars, new_vars, bound_vars, quad_vars, logp_vars, construct_vars,
      population_vars, wishart_vars, factor_vars, packed_vars, tune_vars>>
NotTune ==
    <<step_vars, metrop_vars, new_vars, bound_vars, quad_vars, logp_vars, construct_vars,
      population_vars, wishart_vars, factor_vars, packed_vars, car_vars>>

None == "None"

(***************************************************************************)
(* Bounds of the model.                                                    *)
(***************************************************************************)
MaxLen == 2      \* longest axis of a variable's value
MaxSteps == 2    \* consecutive step() calls explored
MaxMag == 3      \* largest magnitude of a finite log acceptance ratio
MaxExp == 3      \* smallest uniform draw explored is 2^-MaxExp
MaxVars == 3     \* longest variable list handed to a step method's constructor
MaxN == 2        \* length of the last axis of the tensors handed to bound
MaxConds == 2    \* most conditions handed to bound
MaxK == 2        \* the matrices handed to the distributions are Mat(0..MaxK)
MaxEntry == 2    \* covariance matrices hold the integers -1..MaxEntry
MaxRows == 2     \* most rows of a 2-dimensional value handed to a logp
MaxCount == 6    \* largest count in a value handed to Multinomial.logp
MaxConc == 2     \* largest concentration handed to Dirichlet.logp
MaxDim == 4      \* largest dimension handed to LKJCorr
MaxList == 2     \* longest list of matrices handed to KroneckerNormal.dist
MaxChains == 4   \* largest population handed to link_population
MaxP == 2        \* largest dimension of WishartBartlett's scale matrix
MaxPacked == 3   \* largest dimension n handed to _LKJCholeskyCov
MaxSites == 3    \* most variables (rows of W) handed to CARRV.rng_fn
MaxBatch == 2    \* largest size handed to CARRV.rng_fn
MaxCalls == 4    \* longest sequence of step / stop_tuning calls explored

(***************************************************************************)
(* Arrays.  A value is [shape, at]: at maps every index tuple of the shape *)
(* to the element there.  ravel and reshape are row-major (C order).       *)
(***************************************************************************)
RECURSIVE Prod(_)
Prod(shape) == IF shape = <<>> THEN 1 ELSE shape[1] * Prod(Tail(shape))

RECURSIVE IndexSet(_)
IndexSet(shape) ==
    IF shape = <<>> THEN {<<>>}
    ELSE {<<i>> \o rest : i \in 0..(shape[1] - 1), rest \in IndexSet(Tail(shape))}

RECURSIVE RavelIndex(_, _)
RavelIndex(idx, shape) ==
    IF idx = <<>> THEN 0
    ELSE idx[1] * Prod(Tail(shape)) + RavelIndex(Tail(idx), Tail(shape))

RECURSIVE UnravelIndex(_, _)
UnravelIndex(k, shape) ==
    IF shape = <<>> THEN <<>>
    ELSE <<k \div Prod(Tail(shape))>> \o UnravelIndex(k % Prod(Tail(shape)), Tail(shape))

Ravel(arr) == [k \in 1..Prod(arr.shape) |-> arr.at[UnravelIndex(k - 1, arr.shape)]]

Reshape(data, shape) ==
    [shape |-> shape,
     at |-> [idx \in IndexSet(shape) |-> data[RavelIndex(idx, shape) + 1]]]

RECURSIVE Concatenate(_)
Concatenate(seqs) == IF seqs = <<>> THEN <<>> ELSE Head(seqs) \o Concatenate(Tail(seqs))

(***************************************************************************)
(* DictToArrayBijection (pymc3.blocking).  map ravels the values of a      *)
(* dict in key order into one vector and records (name, shape) per key;    *)
(* rmap copies start_point and overwrites the recorded names with the      *)
(* slices of the vector, reshaped.                                         *)
(***************************************************************************)
\* var_dict is a dict in insertion order: a sequence of [k, v] items.
DictToArrayBijection_map(var_dict) ==
    [data |-> Concatenate([i \in 1..Len(var_dict) |-> Ravel(var_dict[i].v)]),
     point_map_info |-> [i \in 1..Len(var_dict) |->
                            [name |-> var_dict[i].k, shape |-> var_dict[i].v.shape]]]

RECURSIVE rmap_loop(_, _, _, _)
rmap_loop(info, data, last_idx, result) ==
    IF info = <<>> THEN result
    ELSE LET e == Head(info)
             arr_len == Prod(e.shape)
             var == Reshape(SubSeq(data, last_idx + 1, last_idx + arr_len), e.shape)
         IN  rmap_loop(Tail(info), data, last_idx + arr_len, (e.name :> var) @@ result)

DictToArrayBijection_rmap(array, start_point) ==
    rmap_loop(array.point_map_info, array.data, 0, start_point)

EmptyDict == [n \in {} |-> 0]


(***************************************************************************)
(* The points a sampler starts from: three variables, one scalar, one      *)
(* vector and one matrix, in every assignment, with pairwise distinct      *)
(* elements.                                                               *)
(***************************************************************************)
Names == {"x", "y", "z"}

ElemValue(base, idx) ==
    base + (IF Len(idx) >= 1 THEN 10 * idx[1] ELSE 0) + (IF Len(idx) >= 2 THEN idx[2] ELSE 0)

MakeArray(shape, base) ==
    [shape |-> shape, at |-> [idx \in IndexSet(shape) |-> ElemValue(base, idx)]]

BaseOf(name) == CASE name = "x" -> 100 [] name = "y" -> 200 [] OTHER -> 300

ShapeChoices == {<<>>, <<MaxLen>>, <<2, MaxLen>>}

Layouts == {l \in [Names -> ShapeChoices] : \A s \in ShapeChoices : \E n \in Names : l[n] = s}

StartPoints == {[n \in Names |-> MakeArray(l[n], BaseOf(n))] : l \in Layouts}

(***************************************************************************)
(* Step objects.  vars is the declared variable list (names of model       *)
(* variables, in the order given); fs the logp functions of an ArrayStep;  *)
(* shared the names of the shared variables of an ArrayStepShared.         *)
(***************************************************************************)
VarLists == UNION {[1..n -> Names] : n \in 1..Cardinality(Names)}

SeqRange(s) == {s[i] : i \in 1..Len(s)}

\* the logp/gradient function of a GradientSharedStep, with its flag; the other
\* classes have none and carry NoFunc
Func(extra_are_set) == [_extra_are_set |-> extra_are_set]

NoFunc == Func(FALSE)

ArrayStepObjs ==
    [cls : {"ArrayStep"}, vars : VarLists, fs : {<<"logp">>}, allvars : BOOLEAN,
     generates_stats : BOOLEAN, shared : {{}}, logp_dlogp_func : {NoFunc}]

ArrayStepSharedObjs ==
    {o \in [cls : {"ArrayStepShared"}, vars : VarLists, fs : {<<>>}, allvars : {FALSE},
            generates_stats : BOOLEAN, shared : SUBSET Names, logp_dlogp_func : {NoFunc}] :
        o.shared \cap SeqRange(o.vars) = {}}

\* GradientSharedStep.__init__: shared is func._extra_vars_shared, the
\* variables of the model that are not sampled by this step
GradientSharedStepObjs ==
    {o \in [cls : {"GradientSharedStep"}, vars : VarLists, fs : {<<>>}, allvars : {FALSE},
            generates_stats : {TRUE}, shared : SUBSET Names,
            logp_dlogp_func : {Func(FALSE), Func(TRUE)}] :
        o.shared = Names \ SeqRange(o.vars)}

Stats == {"tune", "accept"}

\* {v.name: point[v.name] for v in self.vars}: the keys of a dict comprehension,
\* in order of first insertion.
RECURSIVE DictKeys(_)
DictKeys(vs) ==
    IF vs = <<>> THEN <<>>
    ELSE LET r == DictKeys(SubSeq(vs, 1, Len(vs) - 1))
             v == vs[Len(vs)]
         IN  IF v \in SeqRange(r) THEN r ELSE Append(r, v)

\* {v.name: point[v.name] for v in self.vars}
StepVarDict_swapped(self, point) ==
    LET keys == DictKeys(self.vars)
    IN  [i \in 1..Len(keys) |-> [k |-> keys[i], v |-> point[keys[Len(keys) + 1 - i]]]]

StepVarDict(self, point) ==
    LET keys == DictKeys(self.vars)
    IN  [i \in 1..Len(keys) |-> [k |-> keys[i], v |-> point[keys[i]]]]

\* DictToArrayBijection.map({v.name: point[v.name] for v in self.vars})
StepFlatten(self, point) == DictToArrayBijection_map(StepVarDict(self, point))

\* partial_funcs_and_point: one mapped function per element of fs, then the
\* point itself when allvars is set.
PartialFuncsAndPoint(self, arg) ==
    [i \in 1..Len(self.fs) |-> [mapf |-> self.fs[i], start_point |-> arg]]
        \o (IF self.allvars THEN <<[mapf |-> None, start_point |-> arg]>> ELSE <<>>)

\* What astep hands back: a RaveledVars (raveled) or a bare array.
RaveledVars(data, info) == [data |-> data, point_map_info |-> info]

Reverse(s) == [i \in 1..Len(s) |-> s[Len(s) + 1 - i]]

AstepReturns(apoint, point, self) ==
    {[raveled |-> TRUE, data |-> apoint.data, point_map_info |-> apoint.point_map_info],
     [raveled |-> FALSE, data |-> [i \in 1..Len(apoint.data) |-> apoint.data[i] + 1],
      point_map_info |-> <<>>],
     [raveled |-> FALSE, data |-> apoint.data, point_map_info |-> <<>>],
     [raveled |-> TRUE, data |-> Reverse(apoint.data),
      point_map_info |-> apoint.point_map_info],
     [raveled |-> TRUE, data |-> <<7>>,
      point_map_info |-> <<[name |-> "w", shape |-> <<>>]>>]}
    \cup {[raveled |-> TRUE, data |-> [i \in 1..Prod(point[u].shape) |-> 0],
           point_map_info |-> <<[name |-> u, shape |-> point[u].shape]>>] :
             u \in DOMAIN point \ SeqRange(self.vars)}

\* if not isinstance(apoint_new, RaveledVars):
\*     apoint_new = RaveledVars(apoint_new, apoint.point_map_info)
StepWrap(apoint_new, apoint) ==
    IF apoint_new.raveled
    THEN RaveledVars(apoint_new.data, apoint_new.point_map_info)
    ELSE RaveledVars(apoint_new.data, apoint.point_map_info)

\* point_new = DictToArrayBijection.rmap(apoint_new, start_point=point): a new
\* dictionary object; the one passed in stays as it is.
StepUnflatten_nostart(h, apoint_new, arg) ==
    Append(h, DictToArrayBijection_rmap(apoint_new, EmptyDict))

StepUnflatten(h, apoint_new, arg) ==
    Append(h, DictToArrayBijection_rmap(apoint_new, h[arg]))

\* return point_new, stats   /   return point_new
StepReturn(self, point_new, stats) ==
    [point |-> point_new, stats |-> IF self.generates_stats THEN stats ELSE None]

StatsOf(self) == IF self.generates_stats THEN Stats ELSE {None}

NoCall ==
    [n |-> 0, arg |-> 0, point_in |-> EmptyDict, args |-> <<>>, astep_in |-> RaveledVars(<<>>, <<>>),
     astep_out |-> RaveledVars(<<>>, <<>>), seen |-> EmptyDict,
     ret |-> [point |-> 0, stats |-> None], all_same |-> TRUE, func |-> NoFunc]

\* ArrayStep.step(point)
ArrayStep_step ==
    /\ stepobj.cls = "ArrayStep"
    /\ last.n < MaxSteps
    /\ LET arg == Len(heap)
           point == heap[arg]
           partial_funcs_and_point == PartialFuncsAndPoint(stepobj, arg)
           apoint == StepFlatten(stepobj, point)
       IN  \E step_res \in AstepReturns(apoint, point, stepobj), stats \in StatsOf(stepobj) :
             LET apoint_new == StepWrap(step_res, apoint)
                 h == StepUnflatten(heap, apoint_new, arg)
             IN  /\ heap' = h
                 /\ last' = [n |-> last.n + 1, arg |-> arg, point_in |-> point,
                             args |-> partial_funcs_and_point,
                             astep_in |-> apoint, astep_out |-> apoint_new,
                             seen |-> shared_value,
                             ret |-> StepReturn(stepobj, Len(h), stats),
                             all_same |-> last.all_same /\ apoint_new = apoint,
                             func |-> stepobj.logp_dlogp_func]
    /\ UNCHANGED <<stepobj, shared_value>>
    /\ UNCHANGED NotStep

SetShared_stale(self, point, sv) == sv

\* for name, shared_var in self.shared.items(): shared_var.set_value(point[name])
SetShared(self, point, sv) ==
    [name \in DOMAIN sv |-> IF name \in self.shared THEN point[name] ELSE sv[name]]

\* the body of ArrayStepShared.step(point), run on self; seen and func are the
\* shared values and the function's flag at the moment astep is invoked
SharedStep(self) ==
    /\ last.n < MaxSteps
    /\ LET arg == Len(heap)
           point == heap[arg]
           sv == SetShared(self, point, shared_value)
           q == StepFlatten(self, point)
       IN  \E step_res \in AstepReturns(q, point, self), stats \in StatsOf(self) :
             LET apoint == StepWrap(step_res, q)
                 h == StepUnflatten(heap, apoint, arg)
             IN  /\ shared_value' = sv
                 /\ heap' = h
                 /\ last' = [n |-> last.n + 1, arg |-> arg, point_in |-> point,
                             args |-> <<>>,
                             astep_in |-> q, astep_out |-> apoint,
                             seen |-> sv,
                             ret |-> StepReturn(self, Len(h), stats),
                             all_same |-> last.all_same /\ apoint = q,
                             func |-> self.logp_dlogp_func]
    /\ stepobj' = self
    /\ UNCHANGED NotStep

\* ArrayStepShared.step(point)
ArrayStepShared_step ==
    /\ stepobj.cls = "ArrayStepShared"
    /\ SharedStep(stepobj)

\* GradientSharedStep.step(point): self._logp_dlogp_func._extra_are_set = True,
\* then super().step(point)
GradientSharedStep_step ==
    /\ stepobj.cls = "GradientSharedStep"
    /\ SharedStep([stepobj EXCEPT !.logp_dlogp_func._extra_are_set = TRUE])

IdleStep ==
    /\ stepobj = None
    /\ heap = <<>>
    /\ shared_value = EmptyDict
    /\ last = NoCall

(***************************************************************************)
(* metrop_select.  Floats are NaN, the two infinities, or a finite number; *)
(* finite log ratios and logarithms of draws are counted in units of ln 2. *)
(* uniform() returns a float in [0, 1): 0, or 2^-e for an e >= 1.           *)
(***************************************************************************)
NaN == [kind |-> "nan", v |-> 0]
PosInf == [kind |-> "inf", v |-> 1]
NegInf == [kind |-> "inf", v |-> -1]
Fin(n) == [kind |-> "fin", v |-> n]

Floats == {NaN, PosInf, NegInf} \cup {Fin(n) : n \in (-MaxMag)..MaxMag}

Uniform == {[zero |-> TRUE, e |-> 0]} \cup {[zero |-> FALSE, e |-> e] : e \in 1..MaxExp}

np_isfinite(x) == x.kind = "fin"

\* np.log of a draw: -inf at 0 (a warning, no exception), else ln(2^-e)
np_log(u) == IF u.zero THEN NegInf ELSE Fin(-u.e)

\* IEEE a < b: false when either side is NaN
np_less(a, b) ==
    /\ a.kind # "nan" /\ b.kind # "nan"
    /\ \/ a = NegInf /\ b # NegInf
       \/ a.kind = "fin" /\ b = PosInf
       \/ a.kind = "fin" /\ b.kind = "fin" /\ a.v < b.v

np_less_equal(a, b) ==
    /\ a.kind # "nan" /\ b.kind # "nan"
    /\ (a = b \/ np_less(a, b))

\* metrop_select(mr, q, q0); u is what uniform() returns when it is called
metrop_select_le(mr, q, q0, u) ==
    IF np_isfinite(mr) /\ np_less_equal(np_log(u), mr)
    THEN [value |-> q, accepted |-> TRUE, drew |-> TRUE]
    ELSE [value |-> q0, accepted |-> FALSE, drew |-> np_isfinite(mr)]

metrop_select_notge(mr, q, q0, u) ==
    IF ~(np_less_equal(mr, np_log(u)))
    THEN [value |-> q, accepted |-> TRUE, drew |-> TRUE]
    ELSE [value |-> q0, accepted |-> FALSE, drew |-> TRUE]

metrop_select(mr, q, q0, u) ==
    IF np_isfinite(mr) /\ np_less(np_log(u), mr)
    THEN [value |-> q, accepted |-> TRUE, drew |-> TRUE]
    ELSE [value |-> q0, accepted |-> FALSE, drew |-> np_isfinite(mr)]

\* the proposed and the current sample are two objects; their values may agree
Samples == 0..1

NoSelect ==
    [called |-> FALSE, mr |-> NaN, u |-> [zero |-> TRUE, e |-> 0],
     q |-> [id |-> "q", val |-> 0], q0 |-> [id |-> "q0", val |-> 0],
     ret |-> [value |-> [id |-> "q0", val |-> 0], accepted |-> FALSE, drew |-> FALSE]]

Metrop_select ==
    /\ \E mr \in Floats, u \in Uniform, qv \in Samples, q0v \in Samples :
          LET q == [id |-> "q", val |-> qv]
              q0 == [id |-> "q0", val |-> q0v]
          IN  ms' = [called |-> TRUE, mr |-> mr, u |-> u, q |-> q, q0 |-> q0,
                     ret |-> metrop_select(mr, q, q0, u)]
    /\ UNCHANGED NotMetrop

IdleMetrop == ms = NoSelect

(***************************************************************************)
(* BlockedStep.__new__(cls, *args, **kwargs).  Python values are records:  *)
(* t is the type, items the elements of a list, name a variable's or an    *)
(* object's name, b the truth value of a bool.                             *)
(***************************************************************************)
PyNone == [t |-> "NoneType", items |-> <<>>, name |-> "", b |-> FALSE]
PyBool(b) == [t |-> "bool", items |-> <<>>, name |-> "", b |-> b]
PyList(items) == [t |-> "list", items |-> items, name |-> "", b |-> items # <<>>]
PyVar(name) == [t |-> "Variable", items |-> <<>>, name |-> name, b |-> TRUE]
PyObj(name) == [t |-> "object", items |-> <<>>, name |-> name, b |-> TRUE]
PyModel(value_vars) == [t |-> "Model", items |-> value_vars, name |-> "", b |-> TRUE]

\* getattr(cls, "default_blocked", True)
GetDefaultBlocked(cls) ==
    IF cls.default_blocked = PyNone /\ ~cls.has_default_blocked THEN PyBool(TRUE)
    ELSE cls.default_blocked

\* kwargs.get(key)
DictGet(kwargs, key) == IF key \in DOMAIN kwargs THEN kwargs[key] ELSE PyNone

DictPop(kwargs, key) == [k \in DOMAIN kwargs \ {key} |-> kwargs[k]]

\* modelcontext(model): the model given, else the one of the enclosing context
modelcontext(model, ctx) == IF model = PyNone THEN ctx ELSE model

\* if not blocked and len(vars) > 1
FanOut_any(blocked, vs) == ~blocked.b

FanOut(blocked, vs) == ~blocked.b /\ Len(vs.items) > 1

SubStep_without_var(cls, var, args, kwargs) ==
    [kind |-> "step", cls |-> cls.name,
     init |-> [args |-> <<PyList(<<var>>)>> \o args, kwargs |-> kwargs],
     newargs |-> [args |-> args, kwargs |-> kwargs],
     methods |-> <<>>]

\* super().__new__(cls); step.__init__([var], *args, **kwargs);
\* step.__newargs = ([var],) + args, kwargs
SubStep(cls, var, args, kwargs) ==
    [kind |-> "step", cls |-> cls.name,
     init |-> [args |-> <<PyList(<<var>>)>> \o args, kwargs |-> kwargs],
     newargs |-> [args |-> <<PyList(<<var>>)>> \o args, kwargs |-> kwargs],
     methods |-> <<>>]

NoVars_never(vs) == FALSE

\* if len(vars) == 0
NoVars(vs) == Len(vs.items) = 0

\* what __new__ returns, or the exception it raises; a single step is
\* initialised by Python afterwards, with the arguments of the call itself
BlockedStep_new(cls, args, kwargs, ctx) ==
    LET blocked0 == DictGet(kwargs, "blocked")
        blocked == IF blocked0 = PyNone THEN GetDefaultBlocked(cls) ELSE blocked0
        kw1 == IF blocked0 = PyNone THEN ("blocked" :> blocked) @@ kwargs ELSE kwargs
        model == modelcontext(DictGet(kw1, "model"), ctx)
        kw2 == ("model" :> model) @@ kw1
        positional == "vars" \notin DOMAIN kw2 /\ Len(args) >= 1
        vars0 == IF positional THEN args[1]
                 ELSE IF "vars" \in DOMAIN kw2 THEN kw2["vars"]
                 ELSE PyList(model.items)
        args1 == IF positional THEN Tail(args) ELSE args
        kw3 == DictPop(kw2, "vars")
        vars1 == IF vars0.t \notin {"tuple", "list"} THEN PyList(<<vars0>>) ELSE vars0
    IN  IF NoVars(vars1)
        THEN [kind |-> "raise", cls |-> "ValueError", init |-> [args |-> <<>>, kwargs |-> EmptyDict],
              newargs |-> [args |-> <<>>, kwargs |-> EmptyDict], methods |-> <<>>]
        ELSE IF FanOut(blocked, vars1)
        THEN [kind |-> "CompoundStep", cls |-> "CompoundStep",
              init |-> [args |-> <<>>, kwargs |-> EmptyDict],
              newargs |-> [args |-> <<>>, kwargs |-> EmptyDict],
              methods |-> [i \in 1..Len(vars1.items) |->
                              SubStep(cls, vars1.items[i], args1, kw3)]]
        ELSE [kind |-> "step", cls |-> cls.name,
              init |-> [args |-> args, kwargs |-> kwargs],
              newargs |-> [args |-> <<vars1>> \o args1, kwargs |-> kw3],
              methods |-> <<>>]

\* The calls explored: the class with or without a default_blocked attribute,
\* blocked absent, None, True or False, and the variables given positionally,
\* as the vars keyword or left to the model; a list of variables or one variable.
StepClasses ==
    {[name |-> "Sampler", has_default_blocked |-> FALSE, default_blocked |-> PyNone]}
    \cup {[name |-> "Sampler", has_default_blocked |-> TRUE, default_blocked |-> PyBool(b)] :
            b \in BOOLEAN}

VarSeqs == UNION {[1..n -> {PyVar(v) : v \in Names}] : n \in 0..MaxVars}

VarsGiven == {PyList(vs) : vs \in VarSeqs} \cup {PyVar(v) : v \in Names}

BlockedGiven ==
    {[given |-> FALSE, value |-> PyNone]}
    \cup {[given |-> TRUE, value |-> v] : v \in {PyNone, PyBool(TRUE), PyBool(FALSE)}}

NewCalls ==
    {[cls |-> c, how |-> h, given |-> g, blocked |-> b] :
        c \in StepClasses, h \in {"positional", "keyword", "model"},
        g \in VarsGiven, b \in BlockedGiven}

\* Sampler(vars, fs, ...), Sampler(fs, vars=vars, ...), Sampler(fs=fs, ...): the
\* first positional argument is taken for vars unless vars is a keyword
CallArgs(call) ==
    CASE call.how = "positional" -> <<call.given, PyObj("fs")>>
      [] call.how = "keyword" -> <<PyObj("fs")>>
      [] OTHER -> <<>>

CallKwargs(call) ==
    LET kb == IF call.blocked.given THEN ("blocked" :> call.blocked.value) ELSE EmptyDict
        kv == CASE call.how = "keyword" -> ("vars" :> call.given)
                 [] call.how = "model" -> ("fs" :> PyObj("fs"))
                 [] OTHER -> EmptyDict
    IN  kb @@ kv

\* the model of the enclosing context; its value_vars are used when no vars are given
CallContext(call) ==
    PyModel(IF call.how = "model" /\ call.given.t = "list" THEN call.given.items ELSE <<>>)

NotReturned ==
    [kind |-> "none", cls |-> "", init |-> [args |-> <<>>, kwargs |-> EmptyDict],
     newargs |-> [args |-> <<>>, kwargs |-> EmptyDict], methods |-> <<>>]

NoNew ==
    [called |-> FALSE,
     call |-> [cls |-> [name |-> "Sampler", has_default_blocked |-> FALSE,
                        default_blocked |-> PyNone],
               how |-> "model", given |-> PyList(<<>>),
               blocked |-> [given |-> FALSE, value |-> PyNone]],
     ret |-> NotReturned, rebuilt |-> FALSE, again |-> <<>>]

\* the constructor call about to be made is evaluated
BlockedStep_new_call ==
    /\ ~made.called
    /\ made' = [made EXCEPT !.called = TRUE,
                            !.ret = BlockedStep_new(made.call.cls, CallArgs(made.call),
                                                    CallKwargs(made.call),
                                                    CallContext(made.call))]
    /\ UNCHANGED NotNew

\* __getnewargs_ex__(self)
getnewargs_ex(self) == self.newargs

\* the step objects a call created: the step itself, or the sub-steps of the
\* CompoundStep
Created(ret) ==
    CASE ret.kind = "step" -> <<ret>>
      [] ret.kind = "CompoundStep" -> ret.methods
      [] OTHER -> <<>>

\* every step object created is built again the way unpickling does it:
\* cls.__new__(cls, *args, **kwargs) with the result of __getnewargs_ex__(),
\* outside any model context
BlockedStep_new_again ==
    /\ made.called /\ ~made.rebuilt
    /\ Created(made.ret) # <<>>
    /\ made' = [made EXCEPT
                  !.rebuilt = TRUE,
                  !.again = [i \in 1..Len(Created(made.ret)) |->
                                BlockedStep_new(made.call.cls,
                                                getnewargs_ex(Created(made.ret)[i]).args,
                                                getnewargs_ex(Created(made.ret)[i]).kwargs,
                                                PyNone)]]
    /\ UNCHANGED NotNew

IdleNew == made = NoNew

(***************************************************************************)
(* bound(logp, *conditions, broadcast_conditions=True) of dist_math, with  *)
(* the tensor operations it is built from.  Tensors are [shape, at] as     *)
(* above; operands broadcast the numpy way (shapes aligned at the last     *)
(* axis, an axis of length 1 stretched).  Conditions hold numbers: zero is *)
(* false, anything else true.                                              *)
(***************************************************************************)
Scalar(v) == [shape |-> <<>>, at |-> [idx \in {<<>>} |-> v]]

PadShape(shape, r) ==
    [i \in 1..r |-> IF i <= r - Len(shape) THEN 1 ELSE shape[i - (r - Len(shape))]]

Max(a, b) == IF a >= b THEN a ELSE b

BroadcastShape(s1, s2) ==
    LET r == Max(Len(s1), Len(s2))
        p1 == PadShape(s1, r)
        p2 == PadShape(s2, r)
    IN  [i \in 1..r |-> IF p1[i] = 1 THEN p2[i] ELSE p1[i]]

\* the index in a tensor of the given shape that position idx of a broadcast
\* result reads
BroadcastIndex(idx, shape) ==
    [j \in 1..Len(shape) |-> IF shape[j] = 1 THEN 0 ELSE idx[j + Len(idx) - Len(shape)]]

ElemAt(t, idx) == t.at[BroadcastIndex(idx, t.shape)]

\* a * b on tensors of numbers
Mul(a, b) ==
    LET sh == BroadcastShape(a.shape, b.shape)
    IN  [shape |-> sh, at |-> [idx \in IndexSet(sh) |-> ElemAt(a, idx) * ElemAt(b, idx)]]

\* at.all(t): a scalar, 1 when every element is non-zero
at_all(t) == Scalar(IF \A idx \in IndexSet(t.shape) : t.at[idx] # 0 THEN 1 ELSE 0)

\* at.switch(cond, ift, iff)
at_switch(cond, ift, iff) ==
    LET sh == BroadcastShape(BroadcastShape(cond.shape, ift.shape), iff.shape)
    IN  [shape |-> sh,
         at |-> [idx \in IndexSet(sh) |->
                    IF ElemAt(cond, idx) # 0 THEN ElemAt(ift, idx) ELSE ElemAt(iff, idx)]]

\* ret = 1; for c in vals: ret = ret * (1 * c)
RECURSIVE alltrue_elemwise_loop(_, _)
alltrue_elemwise_loop(vals, ret) ==
    IF vals = <<>> THEN ret
    ELSE alltrue_elemwise_loop(Tail(vals), Mul(ret, Mul(Scalar(1), Head(vals))))

alltrue_elemwise(vals) == alltrue_elemwise_loop(vals, Scalar(1))

\* at.all([at.all(1 * val) for val in vals])
alltrue_scalar(vals) ==
    Scalar(IF \A i \in 1..Len(vals) : at_all(Mul(Scalar(1), vals[i])).at[<<>>] # 0
           THEN 1 ELSE 0)

alltrue_first(vals) == IF vals = <<>> THEN Scalar(1) ELSE Mul(Scalar(1), Head(vals))

bound_unchecked(logp, conditions, broadcast_conditions, check_bounds) ==
    LET alltrue == IF broadcast_conditions THEN alltrue_elemwise(conditions)
                   ELSE alltrue_scalar(conditions)
    IN  at_switch(alltrue, logp, Scalar(NegInf))

bound_first(logp, conditions, broadcast_conditions, check_bounds) ==
    IF ~check_bounds THEN logp
    ELSE LET alltrue == IF broadcast_conditions THEN alltrue_first(conditions)
                        ELSE at_all(alltrue_first(conditions))
         IN  at_switch(alltrue, logp, Scalar(NegInf))

bound_always_elemwise(logp, conditions, broadcast_conditions, check_bounds) ==
    IF ~check_bounds THEN logp
    ELSE at_switch(alltrue_elemwise(conditions), logp, Scalar(NegInf))

\* check_bounds is the setting of the model in whose context bound is called
bound(logp, conditions, broadcast_conditions, check_bounds) ==
    IF ~check_bounds THEN logp
    ELSE LET alltrue == IF broadcast_conditions THEN alltrue_elemwise(conditions)
                        ELSE alltrue_scalar(conditions)
         IN  at_switch(alltrue, logp, Scalar(NegInf))

\* The calls explored.  Expressions: a scalar, a vector and a matrix of pairwise
\* distinct finite values, and the same with a NaN in the first place.
BoundShapes == {<<>>, <<MaxN>>, <<2, MaxN>>}

FirstIndex(shape) == [j \in 1..Len(shape) |-> 0]

Exprs ==
    {[shape |-> sh,
      at |-> [idx \in IndexSet(sh) |->
                 IF nan /\ idx = FirstIndex(sh) THEN NaN ELSE Fin(ElemValue(1, idx))]] :
        sh \in BoundShapes, nan \in BOOLEAN}

\* Conditions: a scalar True, False or 5; every 0/1 vector; the matrices and
\* columns with no, one or every entry false.
Sparse(shape) ==
    {[shape |-> shape, at |-> [idx \in IndexSet(shape) |-> 1]],
     [shape |-> shape, at |-> [idx \in IndexSet(shape) |-> 0]]}
    \cup {[shape |-> shape, at |-> [idx \in IndexSet(shape) |-> IF idx = z THEN 0 ELSE 1]] :
            z \in IndexSet(shape)}

Conds ==
    {Scalar(1), Scalar(0), Scalar(5)}
    \cup {[shape |-> <<MaxN>>, at |-> f] : f \in [IndexSet(<<MaxN>>) -> {0, 1}]}
    \cup Sparse(<<2, MaxN>>) \cup Sparse(<<2, 1>>)

CondLists == UNION {[1..n -> Conds] : n \in 0..MaxConds}

NoBound ==
    [called |-> FALSE, logp |-> Scalar(NaN), conditions |-> <<>>,
     broadcast_conditions |-> TRUE, check_bounds |-> TRUE,
     ret |-> Scalar(NaN), ret_all |-> Scalar(NaN)]

\* bound(logp, *conditions, broadcast_conditions=...), and the same call with
\* every condition reduced by at.all first (MultinomialA / MultinomialB)
Bound_call ==
    /\ ~bd.called
    /\ bd' = [bd EXCEPT
                !.called = TRUE,
                !.ret = bound(bd.logp, bd.conditions, bd.broadcast_conditions,
                              bd.check_bounds),
                !.ret_all = bound(bd.logp,
                                  [i \in 1..Len(bd.conditions) |-> at_all(bd.conditions[i])],
                                  bd.broadcast_conditions, bd.check_bounds)]
    /\ UNCHANGED NotBound

IdleBound == bd = NoBound

(***************************************************************************)
(* quaddist_matrix and the dist methods that call it.  An argument is None *)
(* or a tensor [ndim, m]; m is the matrix (a sequence of rows) of a        *)
(* 2-dimensional one.  A covariance handed back is the matrix num / den,   *)
(* so that the inverse of an integer matrix is exact.                      *)
(***************************************************************************)
\* lower-triangular with a positive diagonal: not symmetric, and invertible
Mat(k) == <<<<k + 1, 0>>, <<k + 2, k + 3>>>>

Tensor(ndim, m) == [ndim |-> ndim, m |-> m]

NoTensor == Tensor(-1, <<>>)

QuadArgs ==
    {NoTensor} \cup {Tensor(2, Mat(k)) : k \in 0..MaxK}
    \cup {Tensor(0, <<>>), Tensor(1, <<>>), Tensor(3, <<>>)}

IsNone(t) == t = NoTensor

\* t.T: the axes reversed
Transpose(t) ==
    IF t.ndim # 2 THEN t
    ELSE Tensor(2, [i \in 1..Len(t.m[1]) |-> [j \in 1..Len(t.m) |-> t.m[j][i]]])

RECURSIVE SumTo(_, _)
SumTo(f, n) == IF n = 0 THEN 0 ELSE f[n] + SumTo(f, n - 1)

\* a.dot(b)
Dot(a, b) ==
    [i \in 1..Len(a) |-> [j \in 1..Len(b[1]) |->
        SumTo([k \in 1..Len(b) |-> a[i][k] * b[k][j]], Len(b))]]

\* matrix_inverse of a 2 x 2 matrix: the adjugate over the determinant
matrix_inverse(m) ==
    [num |-> <<<<m[2][2], -m[1][2]>>, <<-m[2][1], m[1][1]>>>>,
     den |-> m[1][1] * m[2][2] - m[1][2] * m[2][1]]

Raised(exc, msg) == [exc |-> exc, msg |-> msg, cov |-> [num |-> <<>>, den |-> 0]]

Returned(num, den) == [exc |-> None, msg |-> "", cov |-> [num |-> num, den |-> den]]

\* len([i for i in [tau, cov, chol] if i is not None])
CountGiven(cov, chol, tau) ==
    (IF IsNone(tau) THEN 0 ELSE 1) + (IF IsNone(cov) THEN 0 ELSE 1)
        + (IF IsNone(chol) THEN 0 ELSE 1)

quaddist_matrix_cov_first(cov, chol, tau, lower) ==
    IF ~IsNone(cov)
    THEN IF cov.ndim # 2 THEN Raised("ValueError", "cov must be two dimensional.")
         ELSE Returned(cov.m, 1)
    ELSE IF CountGiven(cov, chol, tau) # 1
    THEN Raised("ValueError", "Incompatible parameterization.")
    ELSE IF ~IsNone(tau)
    THEN IF tau.ndim # 2 THEN Raised("ValueError", "tau must be two dimensional.")
         ELSE LET inv == matrix_inverse(tau.m) IN Returned(inv.num, inv.den)
    ELSE LET c == IF ~lower THEN Transpose(chol) ELSE chol
         IN  IF c.ndim # 2 THEN Raised("ValueError", "chol must be two dimensional.")
             ELSE Returned(Dot(c.m, Transpose(c).m), 1)

\* quaddist_matrix(cov=None, chol=None, tau=None, lower=True)
quaddist_matrix(cov, chol, tau, lower) ==
    LET c == IF ~IsNone(chol) /\ ~lower THEN Transpose(chol) ELSE chol
    IN  IF CountGiven(cov, c, tau) # 1
        THEN Raised("ValueError",
                    "Incompatible parameterization. Specify exactly one of tau, cov, or chol.")
        ELSE IF ~IsNone(cov)
        THEN IF cov.ndim # 2 THEN Raised("ValueError", "cov must be two dimensional.")
             ELSE Returned(cov.m, 1)
        ELSE IF ~IsNone(tau)
        THEN IF tau.ndim # 2 THEN Raised("ValueError", "tau must be two dimensional.")
             ELSE LET inv == matrix_inverse(tau.m) IN Returned(inv.num, inv.den)
        ELSE IF c.ndim # 2 THEN Raised("ValueError", "chol must be two dimensional.")
             ELSE Returned(Dot(c.m, Transpose(c).m), 1)

NotCalled == [reached |-> FALSE, cov |-> NoTensor, chol |-> NoTensor, tau |-> NoTensor,
              lower |-> TRUE]

\* MvNormal.dist(mu, cov=None, tau=None, chol=None, lower=True)
MvNormal_dist ==
    /\ ~qm.called
    /\ IsNone(qm.Sigma)
    /\ qm' = [qm EXCEPT
                !.called = TRUE, !.fn = "MvNormal.dist",
                !.qargs = [reached |-> TRUE, cov |-> qm.cov, chol |-> qm.chol,
                           tau |-> qm.tau, lower |-> qm.lower],
                !.ret = quaddist_matrix(qm.cov, qm.chol, qm.tau, qm.lower)]
    /\ UNCHANGED NotQuad

\* MvStudentT.dist(nu, Sigma=None, mu=None, cov=None, tau=None, chol=None, lower=True)
MvStudentT_dist ==
    /\ ~qm.called
    /\ LET both == ~IsNone(qm.Sigma) /\ ~IsNone(qm.cov)
           cov == IF ~IsNone(qm.Sigma) THEN qm.Sigma ELSE qm.cov
       IN  qm' = [qm EXCEPT
                    !.called = TRUE, !.fn = "MvStudentT.dist",
                    !.qargs = IF both THEN NotCalled
                              ELSE [reached |-> TRUE, cov |-> cov, chol |-> qm.chol,
                                    tau |-> qm.tau, lower |-> qm.lower],
                    !.ret = IF both
                            THEN Raised("ValueError", "Specify only one of cov and Sigma")
                            ELSE quaddist_matrix(cov, qm.chol, qm.tau, qm.lower)]
    /\ UNCHANGED NotQuad

NoDist ==
    [called |-> FALSE, fn |-> "", Sigma |-> NoTensor, cov |-> NoTensor, chol |-> NoTensor,
     tau |-> NoTensor, lower |-> TRUE, qargs |-> NotCalled, ret |-> Raised(None, "")]

IdleQuad == qm = NoDist

(***************************************************************************)
(* Log-densities built on the quadratic-form utility.  Matrices are 2 x 2  *)
(* with small integer entries, values and means hold small integers, and   *)
(* everything computed from them is an exact fraction [num, den] with      *)
(* den > 0.  A Cholesky factor L holds square roots, so it is kept as      *)
(* [nan, d1, c, d2], standing for                                          *)
(*        L = [[sqrt(d1), 0], [c / sqrt(d1), sqrt(d2)]],                   *)
(* with nan set when the factorization failed.  A finite log-density is    *)
(* kept as Fin of its ingredients instead of a rounded number.             *)
(***************************************************************************)
RECURSIVE GCD(_, _)
GCD(a, b) == IF b = 0 THEN a ELSE GCD(b, a % b)

Abs(n) == IF n < 0 THEN -n ELSE n

\* n / d in lowest terms, for d > 0
Rat(n, d) ==
    LET g == GCD(Abs(n), d)
    IN  [num |-> n \div g, den |-> d \div g]

RInt(n) == Rat(n, 1)

RAdd(a, b) == Rat(a.num * b.den + b.num * a.den, a.den * b.den)

RSub(a, b) == Rat(a.num * b.den - b.num * a.den, a.den * b.den)

RMul(a, b) == Rat(a.num * b.num, a.den * b.den)

\* a / b for b # 0
RDiv(a, b) ==
    IF b.num > 0 THEN Rat(a.num * b.den, a.den * b.num)
    ELSE Rat(-(a.num * b.den), -(a.den * b.num))

RPos(a) == a.num > 0

REq(a, b) == a.num * b.den = b.num * a.den

\* The matrices handed in as covariances: every 2 x 2 matrix over the entries,
\* symmetric or not.
Entries == (-1)..MaxEntry

Matrices == {<<<<a, b>>, <<c, d>>>> : a \in Entries, b \in Entries, c \in Entries, d \in Entries}

Symmetric(m) == m[1][2] = m[2][1]

\* x' m x > 0 for every x # 0: the symmetric part of m has positive leading minors
PositiveDefinite(m) ==
    /\ m[1][1] > 0
    /\ 4 * m[1][1] * m[2][2] - (m[1][2] + m[2][1]) * (m[1][2] + m[2][1]) > 0

Factor(nan, d1, c, d2) == [nan |-> nan, d1 |-> d1, c |-> c, d2 |-> d2]

NanFactor == Factor(TRUE, RInt(0), RInt(0), RInt(0))

\* the lower factorization (LAPACK potrf, uplo = 'L'): it reads the lower
\* triangle of m only and stops at the first pivot that is not positive
potrf_lower(m) ==
    LET d1 == RInt(m[1][1])
        c == RInt(m[2][1])
        d2 == RSub(RInt(m[2][2]), RDiv(RMul(c, c), d1))
    IN  IF ~RPos(d1) THEN [info |-> 1, factor |-> NanFactor]
        ELSE IF ~RPos(d2) THEN [info |-> 2, factor |-> NanFactor]
        ELSE [info |-> 0, factor |-> Factor(FALSE, d1, c, d2)]

\* cholesky = Cholesky(lower=True, on_error="nan"): a factor of NaN, never an
\* exception
cholesky(cov) == potrf_lower(cov).factor

\* at.diag(chol_mat) > 0, entry by entry; NaN > 0 is false
DiagPositive(chol_mat) ==
    <<~chol_mat.nan /\ RPos(chol_mat.d1), ~chol_mat.nan /\ RPos(chol_mat.d2)>>

\* the matrix whose every entry is 1
OnesFactor == Factor(FALSE, RInt(1), RInt(1), RInt(1))

at_switch_diagonal_only(ok, chol_mat) ==
    IF ok THEN chol_mat ELSE [chol_mat EXCEPT !.d1 = RInt(1), !.d2 = RInt(1)]

\* at.switch(ok, chol_mat, 1): the scalar 1 is broadcast, so the whole matrix
\* becomes ones when ok is false
at_switch_factor(ok, chol_mat) == IF ok THEN chol_mat ELSE OnesFactor

\* at.sum(at.log(diag)) = log(d1 * d2) / 2, NaN when the diagonal holds a NaN
SumLogDiag(chol_mat) == [nan |-> chol_mat.nan, det |-> RMul(chol_mat.d1, chol_mat.d2)]

\* value[None, :]
AddAxis(t) ==
    [shape |-> <<1>> \o t.shape, at |-> [idx \in IndexSet(<<1>> \o t.shape) |-> t.at[Tail(idx)]]]

\* a - b on tensors of integers, broadcast
Sub(a, b) ==
    LET sh == BroadcastShape(a.shape, b.shape)
    IN  [shape |-> sh, at |-> [idx \in IndexSet(sh) |-> ElemAt(a, idx) - ElemAt(b, idx)]]

\* row r (from 0) of a 2-dimensional tensor with two columns
Row(t, r) == <<RInt(t.at[<<r, 0>>]), RInt(t.at[<<r, 1>>])>>

\* (solve_lower(chol_cov, delta.T).T ** 2).sum(axis=-1), for one row of delta
SolveLowerSq(f, d) ==
    LET z1sq == RDiv(RMul(d[1], d[1]), f.d1)
        r == RSub(d[2], RDiv(RMul(f.c, d[1]), f.d1))
    IN  RAdd(z1sq, RDiv(RMul(r, r), f.d2))

\* (at.dot(delta, chol_tau) ** 2).sum(axis=-1), for one row of delta
DotFactorSq(f, d) ==
    LET s == RAdd(RMul(d[1], f.d1), RMul(d[2], f.c))
    IN  RAdd(RDiv(RMul(s, s), f.d1), RMul(RMul(d[2], d[2]), f.d2))

quaddist_chol_unguarded(delta, chol_mat) ==
    LET diag == DiagPositive(chol_mat)
        chol_cov == at_switch_factor(diag[1] /\ diag[2], chol_mat)
    IN  [dist |-> [shape |-> <<delta.shape[1]>>,
                   at |-> [idx \in IndexSet(<<delta.shape[1]>>) |->
                              SolveLowerSq(chol_cov, Row(delta, idx[1]))]],
         logdet |-> SumLogDiag(chol_mat),
         ok |-> TRUE,
         chol_cov |-> chol_cov]

\* quaddist_chol(delta, chol_mat): (quaddist, logdet, ok), and the local
\* chol_cov that solve_lower received
quaddist_chol(delta, chol_mat) ==
    LET diag == DiagPositive(chol_mat)
        ok == diag[1] /\ diag[2]
        chol_cov == at_switch_factor(ok, chol_mat)
    IN  [dist |-> [shape |-> <<delta.shape[1]>>,
                   at |-> [idx \in IndexSet(<<delta.shape[1]>>) |->
                              SolveLowerSq(chol_cov, Row(delta, idx[1]))]],
         logdet |-> SumLogDiag(chol_mat),
         ok |-> ok,
         chol_cov |-> chol_cov]

\* quaddist_tau(delta, chol_mat): (quaddist, logdet, ok), and the local
\* chol_tau that at.dot received
quaddist_tau(delta, chol_mat) ==
    LET diag == DiagPositive(chol_mat)
        ok == diag[1] /\ diag[2]
        chol_tau == at_switch_factor(ok, chol_mat)
        s == SumLogDiag(chol_mat)
    IN  [dist |-> [shape |-> <<delta.shape[1]>>,
                   at |-> [idx \in IndexSet(<<delta.shape[1]>>) |->
                              DotFactorSq(chol_tau, Row(delta, idx[1]))]],
         logdet |-> [nan |-> s.nan, det |-> RDiv(RInt(1), IF s.nan THEN RInt(1) ELSE s.det)],
         ok |-> ok,
         chol_cov |-> chol_tau]

NoQuad == [exc |-> "ValueError", dist |-> Scalar(RInt(0)),
           logdet |-> [nan |-> TRUE, det |-> RInt(0)], ok |-> FALSE]

\* dist[0]
First(t) == [shape |-> Tail(t.shape), at |-> [idx \in IndexSet(Tail(t.shape)) |-> t.at[<<0>> \o idx]]]

quaddist_parse_keepbatch(value, mu, cov, mat_type) ==
    IF Len(value.shape) > 2 \/ Len(value.shape) = 0 THEN NoQuad
    ELSE LET v == IF Len(value.shape) = 1 THEN AddAxis(value) ELSE value
             q == quaddist_chol(Sub(v, mu), cholesky(cov))
         IN  [exc |-> None, dist |-> q.dist, logdet |-> q.logdet, ok |-> q.ok]

\* quaddist_parse(value, mu, cov, mat_type="cov")
quaddist_parse(value, mu, cov, mat_type) ==
    IF Len(value.shape) > 2 \/ Len(value.shape) = 0 THEN NoQuad
    ELSE LET onedim == Len(value.shape) = 1
             v == IF onedim THEN AddAxis(value) ELSE value
             delta == Sub(v, mu)
             chol_cov == cholesky(cov)
             q == IF mat_type # "tau" THEN quaddist_chol(delta, chol_cov)
                  ELSE quaddist_tau(delta, chol_cov)
         IN  [exc |-> None, dist |-> IF onedim THEN First(q.dist) ELSE q.dist,
              logdet |-> q.logdet, ok |-> q.ok]

\* norm - 0.5 * quaddist - logdet (nu = 0), or norm + inner - logdet of the
\* Student-T: NaN when logdet is, else finite
LogDensity(nu, k, quaddist, logdet) ==
    [shape |-> quaddist.shape,
     at |-> [idx \in IndexSet(quaddist.shape) |->
                IF logdet.nan THEN NaN
                ELSE Fin([nu |-> nu, k |-> k, quad |-> quaddist.at[idx], det |-> logdet.det])]]

Truth(b) == Scalar(IF b THEN 1 ELSE 0)

LogpRaised(exc) == [exc |-> exc, out |-> Scalar(NaN)]

LogpReturned(out) == [exc |-> None, out |-> out]

\* MvNormal.logp(value, mu, cov)
MvNormal_logp(value, mu, cov, check_bounds) ==
    LET q == quaddist_parse(value, mu, cov, "cov")
    IN  IF q.exc # None THEN LogpRaised(q.exc)
        ELSE LET k == value.shape[Len(value.shape)]
             IN  LogpReturned(bound(LogDensity(0, k, q.dist, q.logdet), <<Truth(q.ok)>>,
                                    TRUE, check_bounds))

\* MvStudentT.logp(value, nu, mu, cov)
MvStudentT_logp(value, nu, mu, cov, check_bounds) ==
    LET q == quaddist_parse(value, mu, cov, "cov")
    IN  IF q.exc # None THEN LogpRaised(q.exc)
        ELSE LET k == value.shape[Len(value.shape)]
             IN  LogpReturned(bound(LogDensity(nu, k, q.dist, q.logdet), <<Truth(q.ok)>>,
                                    TRUE, check_bounds))

\* cholesky = Cholesky(lower=True, on_error="raise") of MatrixNormal.dist: the
\* factor, or LinAlgError when the factorization fails
cholesky_raise(cov) ==
    LET p == potrf_lower(cov)
    IN  [exc |-> IF p.info # 0 THEN "LinAlgError" ELSE None, factor |-> p.factor]

\* L.dot(L.T) of a factor
FactorCov(f) ==
    <<<<f.d1, f.c>>, <<f.c, RAdd(RDiv(RMul(f.c, f.c), f.d1), f.d2)>>>>

\* 2 x 2 matrices of fractions: product, transpose, inverse, trace
RDot(a, b) ==
    [i \in 1..2 |-> [j \in 1..2 |-> RAdd(RMul(a[i][1], b[1][j]), RMul(a[i][2], b[2][j]))]]

RTranspose(a) == [i \in 1..2 |-> [j \in 1..2 |-> a[j][i]]]

RInverse(m) ==
    LET det == RSub(RMul(m[1][1], m[2][2]), RMul(m[1][2], m[2][1]))
    IN  <<<<RDiv(m[2][2], det), RDiv(RSub(RInt(0), m[1][2]), det)>>,
          <<RDiv(RSub(RInt(0), m[2][1]), det), RDiv(m[1][1], det)>>>>

RTrace(m) == RAdd(m[1][1], m[2][2])

\* MatrixNormal.logp(value, mu, rowchol, colchol).  The two triangular solves
\* against rowchol give delta' rowcov^-1 delta, the two against colchol
\* multiply by colcov^-1.  Nothing here goes through bound.
MatrixNormal_logp(value, mu, rowchol, colchol) ==
    IF Len(value.shape) # 2 THEN LogpRaised("ValueError")
    ELSE LET d == Sub(value, mu)
             delta == <<Row(d, 0), Row(d, 1)>>
             quaddist == RDot(RDot(RTranspose(delta), RInverse(FactorCov(rowchol))), delta)
             trquaddist == RTrace(RDot(RInverse(FactorCov(colchol)), quaddist))
         IN  LogpReturned(Scalar(Fin([nu |-> 0, k |-> 4, quad |-> trquaddist,
                                      det |-> RMul(SumLogDiag(colchol).det,
                                                   SumLogDiag(rowchol).det)])))

\* Floats of the Kronecker density: NaN, an infinity, or an exact fraction.
XNaN == [kind |-> "nan", sign |-> 0, r |-> RInt(0)]

XInf(sign) == [kind |-> "inf", sign |-> sign, r |-> RInt(0)]

XFin(r) == [kind |-> "fin", sign |-> 0, r |-> r]

\* IEEE a + b
XAdd(a, b) ==
    IF a.kind = "nan" \/ b.kind = "nan" THEN XNaN
    ELSE IF a.kind = "inf" /\ b.kind = "inf" THEN (IF a.sign = b.sign THEN a ELSE XNaN)
    ELSE IF a.kind = "inf" THEN a
    ELSE IF b.kind = "inf" THEN b
    ELSE XFin(RAdd(a.r, b.r))

RECURSIVE XSum(_)
XSum(xs) == IF xs = <<>> THEN XFin(RInt(0)) ELSE XAdd(Head(xs), XSum(Tail(xs)))

\* (d / at.sqrt(e)) ** 2: the square root of a negative number is NaN, d / 0 is
\* an infinity, 0 / 0 is NaN
SquareOverSqrt(d, e) ==
    IF e < 0 THEN XNaN
    ELSE IF e = 0 THEN (IF d = 0 THEN XNaN ELSE XInf(1))
    ELSE XFin(Rat(d * d, e))

RECURSIVE Product(_)
Product(es) == IF es = <<>> THEN 1 ELSE Head(es) * Product(Tail(es))

\* at.sum(at.log(eigs)): NaN with a negative eigenvalue, else -inf with a zero,
\* else log of the product (kept as the product)
SumLog(eigs) ==
    IF \E k \in 1..Len(eigs) : eigs[k] < 0 THEN XNaN
    ELSE IF \E k \in 1..Len(eigs) : eigs[k] = 0 THEN XInf(-1)
    ELSE XFin(RInt(Product(eigs)))

\* eigh (UPLO = 'L') of a matrix whose lower triangle is diagonal: the
\* eigenvalues ascending, and for each the row of the matrix it came from
\* (the eigenvectors are the unit vectors in that order)
eigh(m) ==
    IF m[1][1] <= m[2][2] THEN [w |-> <<m[1][1], m[2][2]>>, perm |-> <<1, 2>>]
    ELSE [w |-> <<m[2][2], m[1][1]>>, perm |-> <<2, 1>>]

\* kron_diag(*eigs_sep): the diagonal of the Kronecker product
RECURSIVE kron_diag(_)
kron_diag(ws) ==
    IF Len(ws) = 1 THEN ws[1]
    ELSE LET rest == kron_diag(Tail(ws))
             n == Len(rest)
         IN  [k \in 1..(Len(ws[1]) * n) |-> ws[1][((k - 1) \div n) + 1] * rest[((k - 1) % n) + 1]]

\* kron_dot(QTs, x) for eigenvectors that are unit vectors: entry k of the result
\* is the entry of x at the returned position
RECURSIVE kron_perm(_)
kron_perm(perms) ==
    IF Len(perms) = 1 THEN perms[1]
    ELSE LET rest == kron_perm(Tail(perms))
             n == Len(rest)
         IN  [k \in 1..(Len(perms[1]) * n) |->
                 (perms[1][((k - 1) \div n) + 1] - 1) * n + rest[((k - 1) % n) + 1]]

\* -(quad + logdet + N * log(2 pi)) / 2
KroneckerDensity(quad, logdet, N) ==
    LET s == XAdd(quad, logdet)
    IN  IF s.kind = "nan" THEN NaN
        ELSE IF s.kind = "inf" THEN (IF s.sign > 0 THEN NegInf ELSE PosInf)
        ELSE Fin([nu |-> 0, k |-> N, quad |-> quad.r, det |-> logdet.r])

\* KroneckerNormal.logp(value, mu, sigma, *covs)
KroneckerNormal_logp(value, mu, sigma, covs) ==
    IF Len(value.shape) > 2 \/ Len(value.shape) = 0 THEN LogpRaised("ValueError")
    ELSE LET onedim == Len(value.shape) = 1
             v == IF onedim THEN AddAxis(value) ELSE value
             delta == Sub(v, mu)
             eighs == [i \in 1..Len(covs) |-> eigh(covs[i])]
             eigs_sep == [i \in 1..Len(covs) |-> eighs[i].w]
             perm == kron_perm([i \in 1..Len(covs) |-> eighs[i].perm])
             kd == kron_diag(eigs_sep)
             eigs == [k \in 1..Len(kd) |-> kd[k] + sigma * sigma]
             N == Len(eigs)
             logdet == SumLog(eigs)
             quad == [shape |-> <<delta.shape[1]>>,
                      at |-> [idx \in IndexSet(<<delta.shape[1]>>) |->
                                 XSum([k \in 1..N |->
                                         SquareOverSqrt(delta.at[<<idx[1], perm[k] - 1>>],
                                                        eigs[k])])]]
             q == IF onedim THEN First(quad) ELSE quad
         IN  LogpReturned([shape |-> q.shape,
                           at |-> [idx \in IndexSet(q.shape) |->
                                      KroneckerDensity(q.at[idx], logdet, N)]])

\* The calls explored: a value of 0 to 3 dimensions, a mean vector, and
\* any matrix as the covariance.
LogpShapes == {<<>>, <<2>>, <<1, 1, 2>>} \cup {<<r, 2>> : r \in 1..MaxRows}

LogpValues == {MakeArray(sh, base) : sh \in LogpShapes, base \in 0..1}

Mu == [shape |-> <<2>>, at |-> [idx \in IndexSet(<<2>>) |-> idx[1]]]

Identity == <<<<1, 0>>, <<0, 1>>>>

NoLogp ==
    [called |-> FALSE, fn |-> "", value |-> Scalar(0), nu |-> 0, cov |-> Identity,
     side |-> "", sigma |-> 0, covs |-> <<>>, vec |-> [ndim |-> 0, rows |-> <<>>],
     n |-> [num |-> 0, den |-> 1], p |-> <<>>, a |-> <<>>, check_bounds |-> TRUE,
     ret |-> LogpRaised(None)]

MvLogpCalls ==
    {[NoLogp EXCEPT !.fn = fn, !.value = value, !.nu = IF fn = "MvStudentT.logp" THEN 3 ELSE 0,
                    !.cov = cov, !.check_bounds = cb] :
        fn \in {"MvNormal.logp", "MvStudentT.logp"}, value \in LogpValues, cov \in Matrices,
        cb \in BOOLEAN}

\* MatrixNormal: a 2 x 2 value (or one of another rank), the matrix as rowcov
\* or as colcov, the identity as the other
MatrixValues == {MakeArray(sh, base) : sh \in {<<>>, <<2>>, <<2, 2>>, <<1, 1, 2>>}, base \in 0..1}

MatrixLogpCalls ==
    {[NoLogp EXCEPT !.fn = "MatrixNormal.logp", !.value = value, !.cov = cov, !.side = side] :
        value \in MatrixValues, cov \in Matrices, side \in {"rowcov", "colcov"}}

\* KroneckerNormal: one or two diagonal matrices, a value whose last axis has
\* the length of their Kronecker product, sigma 0 or 1
DiagonalMatrices == {<<<<a, 0>>, <<0, d>>>> : a \in Entries, d \in Entries}

CovLists == UNION {[1..n -> DiagonalMatrices] : n \in 1..2}

KroneckerValues(N) ==
    {MakeArray(sh, base) :
        sh \in {<<>>, <<N>>, <<1, 1, N>>} \cup {<<r, N>> : r \in 1..MaxRows}, base \in 0..1}

KroneckerLogpCalls ==
    UNION {{[NoLogp EXCEPT !.fn = "KroneckerNormal.logp", !.value = value, !.covs = covs,
                           !.sigma = sigma] :
               sigma \in 0..1, value \in KroneckerValues(Product([i \in 1..Len(covs) |-> 2]))} :
           covs \in CovLists}

MvNormal_logp_call ==
    /\ ~lp.called /\ lp.fn = "MvNormal.logp"
    /\ lp' = [lp EXCEPT !.called = TRUE,
                        !.ret = MvNormal_logp(lp.value, Mu, lp.cov, lp.check_bounds)]
    /\ UNCHANGED NotLogp

MvStudentT_logp_call ==
    /\ ~lp.called /\ lp.fn = "MvStudentT.logp"
    /\ lp' = [lp EXCEPT !.called = TRUE,
                        !.ret = MvStudentT_logp(lp.value, lp.nu, Mu, lp.cov, lp.check_bounds)]
    /\ UNCHANGED NotLogp

\* the log-density of a MatrixNormal built by dist from rowcov / colcov: logp
\* is built first, the factors are computed when it is evaluated
MatrixNormal_logp_call ==
    /\ ~lp.called /\ lp.fn = "MatrixNormal.logp"
    /\ LET rowchol_cov == cholesky_raise(IF lp.side = "rowcov" THEN lp.cov ELSE Identity)
           colchol_cov == cholesky_raise(IF lp.side = "colcov" THEN lp.cov ELSE Identity)
           built == MatrixNormal_logp(lp.value, Mu, rowchol_cov.factor, colchol_cov.factor)
       IN  lp' = [lp EXCEPT
                    !.called = TRUE,
                    !.ret = IF Len(lp.value.shape) # 2 THEN built
                            ELSE IF rowchol_cov.exc # None THEN LogpRaised(rowchol_cov.exc)
                            ELSE IF colchol_cov.exc # None THEN LogpRaised(colchol_cov.exc)
                            ELSE built]
    /\ UNCHANGED NotLogp

KroneckerNormal_logp_call ==
    /\ ~lp.called /\ lp.fn = "KroneckerNormal.logp"
    /\ lp' = [lp EXCEPT
                !.called = TRUE,
                !.ret = KroneckerNormal_logp(lp.value, Scalar(0), lp.sigma, lp.covs)]
    /\ UNCHANGED NotLogp

IdleLogp == lp = NoLogp

(***************************************************************************)
(* Multinomial.logp and Dirichlet.logp.  A value is [ndim, rows]: one row  *)
(* for a vector, one per batch entry for a matrix.  Probabilities and      *)
(* Dirichlet values are fractions.  The terms of the expression are floats *)
(* whose finite values are not tracked (XFin of 0); a finite log-density   *)
(* is kept as Fin of the arguments it was computed from.                   *)
(***************************************************************************)
RLe(a, b) == a.num * b.den <= b.num * a.den

RIsZero(a) == a.num = 0

RECURSIVE RSum(_)
RSum(rs) == IF rs = <<>> THEN RInt(0) ELSE RAdd(Head(rs), RSum(Tail(rs)))

Finite == XFin(RInt(0))

\* -a
XNeg(a) == IF a.kind = "inf" THEN XInf(-a.sign) ELSE a

\* m * y for an exact m: 0 * inf is NaN
XScale(m, y) ==
    IF y.kind = "nan" THEN XNaN
    ELSE IF y.kind = "inf"
    THEN (IF RIsZero(m) THEN XNaN ELSE XInf(IF RPos(m) THEN y.sign ELSE -y.sign))
    ELSE Finite

\* at.log(x)
at_log(x) == IF RIsZero(x) THEN XInf(-1) ELSE IF RPos(x) THEN Finite ELSE XNaN

\* gammaln(x): +inf at the poles 0, -1, -2, ...
gammaln(x) == IF x.den = 1 /\ x.num <= 0 THEN XInf(1) ELSE Finite

\* factln(n) = gammaln(n + 1)
factln(n) == gammaln(RAdd(n, RInt(1)))

\* logpow(x, m) = switch(eq(x, 0), switch(eq(m, 0), 0, -inf), m * log(x))
logpow(x, m) ==
    IF RIsZero(x) THEN (IF RIsZero(m) THEN Finite ELSE XInf(-1))
    ELSE XScale(m, at_log(x))

\* the float a term stands for; args are what a finite one was computed from
ToFloat(x, args) ==
    IF x.kind = "nan" THEN NaN
    ELSE IF x.kind = "inf" THEN (IF x.sign > 0 THEN PosInf ELSE NegInf)
    ELSE Fin(args)

Vec(ndim, rows) == [ndim |-> ndim, rows |-> rows]

\* the shape of a reduction over the last axis
BatchShape(value) == IF value.ndim = 1 THEN <<>> ELSE <<Len(value.rows)>>

BatchRow(value, idx) == IF value.ndim = 1 THEN value.rows[1] ELSE value.rows[idx[1] + 1]

\* the conditions Multinomial.logp hands to bound
MultinomialConditions_no_sum(value, n, p) ==
    <<Truth(\A r \in 1..Len(value.rows) : \A i \in 1..Len(p) : RLe(RInt(0), value.rows[r][i])),
      Truth(\A i \in 1..Len(p) : RLe(p[i], RInt(1))),
      Truth(REq(RSum(p), RInt(1))),
      Truth(RLe(RInt(0), n))>>

MultinomialConditions(value, n, p) ==
    <<Truth(\A r \in 1..Len(value.rows) : \A i \in 1..Len(p) : RLe(RInt(0), value.rows[r][i])),
      Truth(\A r \in 1..Len(value.rows) : REq(RSum(value.rows[r]), n)),
      Truth(\A i \in 1..Len(p) : RLe(p[i], RInt(1))),
      Truth(REq(RSum(p), RInt(1))),
      Truth(RLe(RInt(0), n))>>

\* factln(n) + at.sum(-factln(value) + logpow(p, value), axis=-1)
MultinomialExpr(value, n, p) ==
    [shape |-> BatchShape(value),
     at |-> [idx \in IndexSet(BatchShape(value)) |->
                LET row == BatchRow(value, idx)
                IN  ToFloat(XAdd(factln(n),
                                 XSum([i \in 1..Len(p) |->
                                         XAdd(XNeg(factln(row[i])), logpow(p[i], row[i]))])),
                            [n |-> n, value |-> row, p |-> p])]]

\* Multinomial.logp(value, n, p)
Multinomial_logp(value, n, p, check_bounds) ==
    LogpReturned(bound(MultinomialExpr(value, n, p), MultinomialConditions(value, n, p),
                       FALSE, check_bounds))

\* the conditions Dirichlet.logp hands to bound
DirichletConditions_no_upper(value, a) ==
    <<Truth(\A r \in 1..Len(value.rows) : \A i \in 1..Len(a) : RLe(RInt(0), value.rows[r][i])),
      Truth(\A i \in 1..Len(a) : RPos(a[i]))>>

DirichletConditions(value, a) ==
    <<Truth(\A r \in 1..Len(value.rows) : \A i \in 1..Len(a) : RLe(RInt(0), value.rows[r][i])),
      Truth(\A r \in 1..Len(value.rows) : \A i \in 1..Len(a) : RLe(value.rows[r][i], RInt(1))),
      Truth(\A i \in 1..Len(a) : RPos(a[i]))>>

\* at.sum(logpow(value, a - 1) - gammaln(a), axis=-1) + gammaln(at.sum(a, axis=-1))
DirichletExpr(value, a) ==
    [shape |-> BatchShape(value),
     at |-> [idx \in IndexSet(BatchShape(value)) |->
                LET row == BatchRow(value, idx)
                IN  ToFloat(XAdd(XSum([i \in 1..Len(a) |->
                                         XAdd(logpow(row[i], RSub(a[i], RInt(1))),
                                              XNeg(gammaln(a[i])))]),
                                 gammaln(RSum(a))),
                            [n |-> RInt(0), value |-> row, p |-> a])]]

\* Dirichlet.logp(value, a)
Dirichlet_logp(value, a, check_bounds) ==
    LogpReturned(bound(DirichletExpr(value, a), DirichletConditions(value, a),
                       FALSE, check_bounds))

\* The Multinomial calls explored: every vector of three counts in
\* -1..MaxCount, n from -1 up, and probability vectors that are valid, hold a
\* zero, hold a negative entry (summing to 1, none above 1), hold an entry
\* above 1, or do not sum to 1.
Counts == (-1)..MaxCount

CountVectors == {<<RInt(x), RInt(y), RInt(z)>> : x \in Counts, y \in Counts, z \in Counts}

Trials == {-1, 0, 2, 6}

P0 == <<Rat(1, 5), Rat(3, 10), Rat(1, 2)>>

ProbVectors ==
    {P0,
     <<RInt(0), Rat(1, 2), Rat(1, 2)>>,
     <<Rat(-1, 2), Rat(1, 2), RInt(1)>>,
     <<Rat(3, 2), Rat(-1, 2), RInt(0)>>,
     <<Rat(1, 5), Rat(3, 10), Rat(2, 5)>>}

MultinomialCalls ==
    {[NoLogp EXCEPT !.fn = "Multinomial.logp", !.vec = Vec(1, <<v>>), !.n = RInt(n), !.p = p,
                    !.check_bounds = cb] :
        v \in CountVectors, n \in Trials, p \in ProbVectors, cb \in BOOLEAN}

\* The Dirichlet calls explored: vectors and batches of two rows over the
\* halves from -1/2 to 3/2, concentrations over -1..2.
Halves == {Rat(h, 2) : h \in (-1)..3}

HalfVectors == {<<x, y>> : x \in Halves, y \in Halves}

Concentrations == {<<RInt(x), RInt(y)>> : x \in (-1)..MaxConc, y \in (-1)..MaxConc}

DirichletCalls ==
    {[NoLogp EXCEPT !.fn = "Dirichlet.logp", !.vec = vec, !.a = a, !.check_bounds = cb] :
        vec \in {Vec(1, <<v>>) : v \in HalfVectors}
                \cup {Vec(2, <<v, w>>) : v \in HalfVectors, w \in HalfVectors},
        a \in Concentrations, cb \in BOOLEAN}

Multinomial_logp_call ==
    /\ ~lp.called /\ lp.fn = "Multinomial.logp"
    /\ lp' = [lp EXCEPT !.called = TRUE,
                        !.ret = Multinomial_logp(lp.vec, lp.n, lp.p, lp.check_bounds)]
    /\ UNCHANGED NotLogp

Dirichlet_logp_call ==
    /\ ~lp.called /\ lp.fn = "Dirichlet.logp"
    /\ lp' = [lp EXCEPT !.called = TRUE,
                        !.ret = Dirichlet_logp(lp.vec, lp.a, lp.check_bounds)]
    /\ UNCHANGED NotLogp

(***************************************************************************)
(* Constructors that classify their arguments: LKJCorr.__init__,           *)
(* KroneckerNormal.dist and MatrixNormal.dist.  An optional argument is    *)
(* [given, v]: given is false for None (or an omitted argument).  What a   *)
(* call leaves behind is one record: the exception raised, the warnings    *)
(* emitted in order, and what was stored or handed on.                     *)
(***************************************************************************)
Opt(v) == [given |-> TRUE, v |-> v]

Omitted(v) == [given |-> FALSE, v |-> v]

NoOutcome ==
    [exc |-> None, warnings |-> <<>>, n |-> 0, eta |-> 0, shape |-> 0, tri_index |-> <<>>,
     sigma |-> 0, covs |-> <<>>, kwargs |-> {},
     rowchol_cov |-> [op |-> "", arg |-> NoTensor], colchol_cov |-> [op |-> "", arg |-> NoTensor]]

Raise(exc, warnings) == [NoOutcome EXCEPT !.exc = exc, !.warnings = warnings]

\* tri_index: entry (i, j), i # j, is the position of the pair {i, j} among the
\* entries above the diagonal, row by row from 0; the diagonal holds 0
tri_index(n) ==
    [i \in 1..n |-> [j \in 1..n |->
        IF i = j THEN 0
        ELSE LET r == IF i < j THEN i ELSE j
                 c == IF i < j THEN j ELSE i
             IN  (r - 1) * n - ((r * (r - 1)) \div 2) + (c - r - 1)]]

\* the rest of LKJCorr.__init__ once n and eta are settled
LKJCorr_settled(eta, n, warnings) ==
    [NoOutcome EXCEPT !.n = n, !.eta = eta, !.shape = (n * (n - 1)) \div 2,
                      !.warnings = Append(warnings, "DeprecationWarning"),
                      !.tri_index = tri_index(n)]

LKJCorr_init_unswapped(eta, n, p) ==
    IF p.given /\ n.given /\ ~eta.given
    THEN LKJCorr_settled(p.v, n.v, <<"DeprecationWarning">>)
    ELSE IF n.given /\ eta.given /\ ~p.given
    THEN LKJCorr_settled(eta.v, n.v, <<>>)
    ELSE Raise("ValueError", <<>>)

\* LKJCorr.__init__(self, eta=None, n=None, p=None, transform="interval")
LKJCorr_init(eta, n, p) ==
    IF p.given /\ n.given /\ ~eta.given
    THEN LKJCorr_settled(n.v, p.v, <<"DeprecationWarning">>)
    ELSE IF n.given /\ eta.given /\ ~p.given
    THEN LKJCorr_settled(eta.v, n.v, <<>>)
    ELSE Raise("ValueError", <<>>)

\* m.T and a.dot(b) of matrices given as sequences of rows
MatT(m) == Transpose(Tensor(2, m)).m

Diag(eig) == [i \in 1..Len(eig) |-> [j \in 1..Len(eig) |-> IF i = j THEN eig[i] ELSE 0]]

\* eigs_sep, Qs = zip(*eigh_iterable) and the loop over zip(eigs_sep, Qs)
KroneckerFromEvds_reversed(evds) ==
    [i \in 1..Len(evds) |->
        Dot(evds[Len(evds) + 1 - i].Q,
            Dot(Diag(evds[Len(evds) + 1 - i].eig), MatT(evds[Len(evds) + 1 - i].Q)))]

KroneckerFromEvds(evds) ==
    [i \in 1..Len(evds) |-> Dot(evds[i].Q, Dot(Diag(evds[i].eig), MatT(evds[i].Q)))]

\* KroneckerNormal.dist(mu, covs=None, chols=None, evds=None, sigma=None)
KroneckerNormal_dist(covs, chols, evds, sigma) ==
    IF Cardinality({a \in {"covs", "chols", "evds"} :
                       (a = "covs" /\ covs.given) \/ (a = "chols" /\ chols.given)
                           \/ (a = "evds" /\ evds.given)}) # 1
    THEN Raise("ValueError", <<>>)
    ELSE LET sig == IF sigma.given /\ sigma.v # 0 THEN sigma.v ELSE 0
         IN  IF chols.given
             THEN [NoOutcome EXCEPT
                     !.sigma = sig,
                     !.covs = [i \in 1..Len(chols.v) |-> Dot(chols.v[i], MatT(chols.v[i]))]]
             ELSE IF evds.given
             THEN (IF evds.v = <<>>
                   THEN Raise("ValueError", <<>>)   \* zip(*[]) unpacks into nothing
                   ELSE [NoOutcome EXCEPT !.sigma = sig, !.covs = KroneckerFromEvds(evds.v)])
             ELSE [NoOutcome EXCEPT !.sigma = sig, !.covs = covs.v]

\* the keyword arguments size and shape of a call: absent, None, or a value
KwAbsent == [present |-> FALSE, none |-> FALSE]

KwNone == [present |-> TRUE, none |-> TRUE]

KwValue == [present |-> TRUE, none |-> FALSE]

\* the rows / columns part of MatrixNormal.dist
MatrixSide(cov, chol) ==
    IF (IF IsNone(cov) THEN 0 ELSE 1) + (IF IsNone(chol) THEN 0 ELSE 1) # 1
    THEN [exc |-> "ValueError", factor |-> [op |-> "", arg |-> NoTensor]]
    ELSE IF ~IsNone(cov)
    THEN (IF cov.ndim # 2 THEN [exc |-> "ValueError", factor |-> [op |-> "", arg |-> NoTensor]]
          ELSE [exc |-> None, factor |-> [op |-> "cholesky", arg |-> cov]])
    ELSE (IF chol.ndim # 2 THEN [exc |-> "ValueError", factor |-> [op |-> "", arg |-> NoTensor]]
          ELSE [exc |-> None, factor |-> [op |-> "as_tensor_variable", arg |-> chol]])

MatrixNormal_dist_size_last(size, shape, rowcov, rowchol, colcov, colchol) ==
    LET warnings == IF shape.present THEN <<"DeprecationWarning">> ELSE <<>>
        row == MatrixSide(rowcov, rowchol)
        col == MatrixSide(colcov, colchol)
    IN  IF row.exc # None THEN Raise(row.exc, warnings)
        ELSE IF col.exc # None THEN Raise(col.exc, warnings)
        ELSE IF size.present /\ ~size.none THEN Raise("NotImplementedError", warnings)
        ELSE [NoOutcome EXCEPT !.warnings = warnings,
                               !.kwargs = IF size.present THEN {"size"} ELSE {},
                               !.rowchol_cov = row.factor, !.colchol_cov = col.factor]

\* MatrixNormal.dist(mu, rowcov=None, rowchol=None, colcov=None, colchol=None,
\* **kwargs); kwargs holds size and shape when they are passed
MatrixNormal_dist(size, shape, rowcov, rowchol, colcov, colchol) ==
    IF size.present /\ ~size.none THEN Raise("NotImplementedError", <<>>)
    ELSE LET warnings == IF shape.present THEN <<"DeprecationWarning">> ELSE <<>>
             row == MatrixSide(rowcov, rowchol)
             col == MatrixSide(colcov, colchol)
         IN  IF row.exc # None THEN Raise(row.exc, warnings)
             ELSE IF col.exc # None THEN Raise(col.exc, warnings)
             ELSE [NoOutcome EXCEPT !.warnings = warnings,
                                    !.kwargs = IF size.present THEN {"size"} ELSE {},
                                    !.rowchol_cov = row.factor, !.colchol_cov = col.factor]

\* The calls explored.
OptInts(S) == {Omitted(0)} \cup {Opt(v) : v \in S}

NoConstruct ==
    [called |-> FALSE, fn |-> "", eta |-> Omitted(0), n |-> Omitted(0), p |-> Omitted(0),
     covs |-> Omitted(<<>>), chols |-> Omitted(<<>>), evds |-> Omitted(<<>>),
     sigma |-> Omitted(0), size |-> KwAbsent, shape |-> KwAbsent,
     rowcov |-> NoTensor, rowchol |-> NoTensor, colcov |-> NoTensor, colchol |-> NoTensor,
     ret |-> NoOutcome]

LKJCorrCalls ==
    {[NoConstruct EXCEPT !.fn = "LKJCorr.__init__", !.eta = eta, !.n = n, !.p = p] :
        eta \in OptInts(1..2), n \in OptInts(1..MaxDim), p \in OptInts(1..MaxDim)}

Lists(S) == UNION {[1..k -> S] : k \in 0..MaxList}

OptLists(S) == {Omitted(<<>>)} \cup {Opt(l) : l \in Lists(S)}

Eigendecompositions == {[eig |-> <<k + 1, k + 2>>, Q |-> Mat(k)] : k \in 0..1}

KroneckerCalls ==
    {[NoConstruct EXCEPT !.fn = "KroneckerNormal.dist", !.covs = covs, !.chols = chols,
                         !.evds = evds, !.sigma = sigma] :
        covs \in OptLists({Mat(0), Mat(1)}), chols \in OptLists({Mat(0), Mat(1)}),
        evds \in OptLists(Eigendecompositions), sigma \in OptInts(0..2)}

MatrixArgs == {NoTensor, Tensor(2, Mat(0)), Tensor(1, <<>>)}

MatrixCalls ==
    {[NoConstruct EXCEPT !.fn = "MatrixNormal.dist", !.size = size, !.shape = shape,
                         !.rowcov = rowcov, !.rowchol = rowchol, !.colcov = colcov,
                         !.colchol = colchol] :
        size \in {KwAbsent, KwNone, KwValue}, shape \in {KwAbsent, KwNone, KwValue},
        rowcov \in MatrixArgs, rowchol \in MatrixArgs, colcov \in MatrixArgs,
        colchol \in MatrixArgs}

LKJCorr_init_call ==
    /\ ~ct.called /\ ct.fn = "LKJCorr.__init__"
    /\ ct' = [ct EXCEPT !.called = TRUE, !.ret = LKJCorr_init(ct.eta, ct.n, ct.p)]
    /\ UNCHANGED NotConstruct

KroneckerNormal_dist_call ==
    /\ ~ct.called /\ ct.fn = "KroneckerNormal.dist"
    /\ ct' = [ct EXCEPT !.called = TRUE,
                        !.ret = KroneckerNormal_dist(ct.covs, ct.chols, ct.evds, ct.sigma)]
    /\ UNCHANGED NotConstruct

MatrixNormal_dist_call ==
    /\ ~ct.called /\ ct.fn = "MatrixNormal.dist"
    /\ ct' = [ct EXCEPT !.called = TRUE,
                        !.ret = MatrixNormal_dist(ct.size, ct.shape, ct.rowcov, ct.rowchol,
                                                  ct.colcov, ct.colchol)]
    /\ UNCHANGED NotConstruct

IdleConstruct == ct = NoConstruct

(***************************************************************************)
(* PopulationArrayStepShared.link_population.  The population is a list    *)
(* object (its elements are the chains' points); the step method keeps a   *)
(* reference to it.                                                        *)
(***************************************************************************)
\* [c for c in range(len(population)) if c != chain_index]
RECURSIVE OtherChains(_, _)
OtherChains(len, chain_index) ==
    IF len = 0 THEN <<>>
    ELSE LET rest == OtherChains(len - 1, chain_index)
         IN  IF len - 1 # chain_index THEN Append(rest, len - 1) ELSE rest

Unlinked == [population |-> None, this_chain |-> -1, other_chains |-> <<>>, linked |-> FALSE]

link_population_one_enough(self, population, chain_index) ==
    LET other_chains == OtherChains(Len(population.items), chain_index)
    IN  [self |-> [population |-> population.id, this_chain |-> chain_index,
                   other_chains |-> other_chains, linked |-> TRUE],
         population |-> population,
         exc |-> IF ~(Len(other_chains) > 0) THEN "ValueError" ELSE None]

\* link_population(self, population, chain_index): the fields of self after
\* the call, the list object after the call, and the exception raised
link_population(self, population, chain_index) ==
    LET other_chains == OtherChains(Len(population.items), chain_index)
    IN  [self |-> [population |-> population.id, this_chain |-> chain_index,
                   other_chains |-> other_chains, linked |-> TRUE],
         population |-> population,
         exc |-> IF ~(Len(other_chains) > 1) THEN "ValueError" ELSE None]

Points == {"point_a", "point_b"}

Populations == UNION {[1..k -> Points] : k \in 0..MaxChains}

ChainIndexes == (-1)..(MaxChains + 1)

NoPopulation ==
    [called |-> FALSE, self |-> Unlinked, population |-> [id |-> "list_1", items |-> <<>>],
     before |-> <<>>, chain_index |-> 0, exc |-> None]

link_population_call ==
    /\ ~pop.called
    /\ LET r == link_population(pop.self, pop.population, pop.chain_index)
       IN  pop' = [pop EXCEPT !.called = TRUE, !.self = r.self, !.population = r.population,
                              !.before = pop.population.items, !.exc = r.exc]
    /\ UNCHANGED NotPopulation

IdlePopulation == pop = NoPopulation

(***************************************************************************)
(* WishartBartlett(name, S, nu, is_cholesky, return_cholesky), called with *)
(* initval=None.  Matrices are sequences of rows of integers; the scale    *)
(* matrices are those with an integer Cholesky factor, and a sample of the *)
(* auxiliary variables takes the chi-squared ones from the perfect squares *)
(* so that at.sqrt stays in the integers.                                  *)
(***************************************************************************)
\* np.diag_indices_from(S)
diag_indices(p) == [i \in 1..p |-> <<i, i>>]

\* np.tril_indices_from(S, k=-1): the pairs below the diagonal, row by row
RECURSIVE tril_indices(_)
tril_indices(p) ==
    IF p <= 1 THEN <<>> ELSE tril_indices(p - 1) \o [j \in 1..(p - 1) |-> <<p, j>>]

\* np.arange(start, stop)
np_arange(start, stop) == [i \in 1..(stop - start) |-> start + i - 1]

\* the upper-triangular matrices with diagonal entries 1..2 and entries 0..1 above
UpperFactors(p) ==
    LET tril_idx == tril_indices(p)
    IN  {[i \in 1..p |-> [j \in 1..p |->
            IF i = j THEN d[i]
            ELSE IF i < j THEN u[CHOOSE k \in 1..Len(tril_idx) : tril_idx[k] = <<j, i>>]
            ELSE 0]] :
         d \in [1..p -> 1..2], u \in [1..Len(tril_idx) -> 0..1]}

\* scipy.linalg.cholesky(a, lower=False): the upper-triangular U with
\* U^T U = a by default, the lower-triangular U^T with lower=True
scipy_linalg_cholesky(a, lower) ==
    LET U == CHOOSE U \in UpperFactors(Len(a)) : Dot(MatT(U), U) = a
    IN  IF lower THEN MatT(U) ELSE U

\* at.sqrt of a perfect square
at_sqrt(c) == CHOOSE r \in 0..c : r * r = c

\* at.zeros(S.shape), then set_subtensor at diag_idx and at tril_idx
BartlettFactor(p, c, z) ==
    LET diag_idx == diag_indices(p)
        tril_idx == tril_indices(p)
    IN  [i \in 1..p |-> [j \in 1..p |->
            IF \E k \in 1..Len(diag_idx) : diag_idx[k] = <<i, j>>
            THEN c[CHOOSE k \in 1..Len(diag_idx) : diag_idx[k] = <<i, j>>]
            ELSE IF \E k \in 1..Len(tril_idx) : tril_idx[k] = <<i, j>>
            THEN z[CHOOSE k \in 1..Len(tril_idx) : tril_idx[k] = <<i, j>>]
            ELSE 0]]

\* WishartBartlett: the ChiSquared and Normal variables it registers, and the
\* Deterministic it returns at the sample (c_sample, z_sample) of them
WishartBartlett(S, nu, is_cholesky, return_cholesky, c_sample, z_sample) ==
    LET L == IF is_cholesky THEN S ELSE scipy_linalg_cholesky(S, FALSE)
        n_diag == Len(diag_indices(Len(S)))
        n_tril == Len(tril_indices(Len(S)))
        offsets == np_arange(2, 2 + n_diag)
        c == [i \in 1..n_diag |-> at_sqrt(c_sample[i])]
        A == BartlettFactor(Len(S), c, z_sample)
    IN  [ChiSquared |-> [nu |-> [i \in 1..n_diag |-> nu - offsets[i]], shape |-> n_diag],
         Normal |-> [mu |-> 0, sigma |-> 1, shape |-> n_tril],
         L |-> L, A |-> A,
         Deterministic |-> IF return_cholesky THEN Dot(L, A)
                           ELSE Dot(Dot(Dot(L, A), MatT(A)), MatT(L))]

Dims == 1..MaxP

\* a scale matrix, or its lower-triangular factor when is_cholesky is set
ScaleArgs(p, is_cholesky) ==
    {IF is_cholesky THEN MatT(U) ELSE Dot(MatT(U), U) : U \in UpperFactors(p)}

Squares == {1, 4}

NoWishart ==
    [called |-> FALSE, S |-> <<>>, nu |-> 0, is_cholesky |-> FALSE, return_cholesky |-> FALSE,
     c_sample |-> <<>>, z_sample |-> <<>>,
     ret |-> [ChiSquared |-> [nu |-> <<>>, shape |-> 0],
              Normal |-> [mu |-> 0, sigma |-> 1, shape |-> 0],
              L |-> <<>>, A |-> <<>>, Deterministic |-> <<>>]]

WishartCalls(p) ==
    UNION {
        {[NoWishart EXCEPT !.S = S, !.nu = nu, !.is_cholesky = is_cholesky,
                           !.return_cholesky = return_cholesky,
                           !.c_sample = c, !.z_sample = z] :
            S \in ScaleArgs(p, is_cholesky), nu \in (p + 1)..(p + 2),
            return_cholesky \in BOOLEAN,
            c \in [1..p -> Squares],
            z \in {[k \in 1..Len(tril_indices(p)) |-> v] : v \in 0..1}} :
        is_cholesky \in BOOLEAN}

WishartBartlett_call ==
    /\ ~wb.called
    /\ wb' = [wb EXCEPT !.called = TRUE,
                        !.ret = WishartBartlett(wb.S, wb.nu, wb.is_cholesky,
                                                wb.return_cholesky, wb.c_sample, wb.z_sample)]
    /\ UNCHANGED NotWishart

IdleWishart == wb = NoWishart

(***************************************************************************)
(* quaddist_chol and quaddist_tau on their own: delta is a batch of rows   *)
(* and chol_mat what line 116 hands them, cholesky(cov).                   *)
(***************************************************************************)
Deltas == {MakeArray(<<r, 2>>, base) : r \in 1..MaxRows, base \in 0..1}

NoFactorCall ==
    [called |-> FALSE, fn |-> "", delta |-> Scalar(0), cov |-> Identity,
     chol_mat |-> NanFactor, ret |-> quaddist_chol(MakeArray(<<1, 2>>, 0), OnesFactor)]

FactorCalls ==
    {[NoFactorCall EXCEPT !.fn = fn, !.delta = delta, !.cov = cov, !.chol_mat = cholesky(cov)] :
        fn \in {"quaddist_chol", "quaddist_tau"}, delta \in Deltas, cov \in Matrices}

quaddist_chol_call ==
    /\ ~qf.called /\ qf.fn = "quaddist_chol"
    /\ qf' = [qf EXCEPT !.called = TRUE, !.ret = quaddist_chol(qf.delta, qf.chol_mat)]
    /\ UNCHANGED NotFactor

quaddist_tau_call ==
    /\ ~qf.called /\ qf.fn = "quaddist_tau"
    /\ qf' = [qf EXCEPT !.called = TRUE, !.ret = quaddist_tau(qf.delta, qf.chol_mat)]
    /\ UNCHANGED NotFactor

IdleFactor == qf = NoFactorCall

(***************************************************************************)
(* _LKJCholeskyCov.__init__(eta, n, sd_dist, **kwargs) and logp(x).  A     *)
(* packed vector is a sequence; the indices held in diag_idxs count from   *)
(* 0 as in the source, so element i of a sequence s is s[i + 1].           *)
(***************************************************************************)
\* a.cumsum()
np_cumsum(a) == [i \in 1..Len(a) |-> SumTo(a, i)]

\* transform_params: np.arange(1, n + 1).cumsum() - 1
transform_params_shifted(n) == np_cumsum(np_arange(1, n + 1))

transform_params(n) ==
    LET c == np_cumsum(np_arange(1, n + 1)) IN [i \in 1..Len(c) |-> c[i] - 1]

PackedOutcome(exc, shape, diag_idxs, mode) ==
    [exc |-> exc, shape |-> shape, diag_idxs |-> diag_idxs, mode |-> mode]

\* _LKJCholeskyCov.__init__: transform and shape are the entries of kwargs,
\* sd_ndim is sd_dist.shape.ndim
LKJCholeskyCov_init(eta, n, sd_ndim, transform, shape) ==
    IF transform.present /\ ~transform.none THEN PackedOutcome("ValueError", 0, <<>>, <<>>)
    ELSE IF shape.present THEN PackedOutcome("ValueError", 0, <<>>, <<>>)
    ELSE LET size == (n * (n + 1)) \div 2
             diag_idxs == transform_params(n)
         IN  IF sd_ndim \notin {0, 1} THEN PackedOutcome("ValueError", 0, <<>>, <<>>)
             ELSE PackedOutcome(None, size, diag_idxs,
                                [i \in 1..size |->
                                    IF \E k \in 1..Len(diag_idxs) : diag_idxs[k] = i - 1
                                    THEN 1 ELSE 0])

\* a[idxs] for an index array idxs
TakeAt(a, idxs) == [k \in 1..Len(idxs) |-> a[idxs[k] + 1]]

LKJCholeskyCov_variance_unsquared(n, diag_idxs, x) ==
    LET cumsum == np_cumsum(x)
        rest == [k \in 1..(n - 1) |->
                    TakeAt(cumsum, Tail(diag_idxs))[k]
                        - TakeAt(cumsum, SubSeq(diag_idxs, 1, Len(diag_idxs) - 1))[k]]
    IN  <<x[1] * x[1]>> \o rest

\* the variance of _LKJCholeskyCov.logp: zeros(n), then x[0] ** 2 added at 0
\* and cumsum[diag_idxs[1:]] - cumsum[diag_idxs[:-1]] added at 1:
LKJCholeskyCov_variance(n, diag_idxs, x) ==
    LET cumsum == np_cumsum([i \in 1..Len(x) |-> x[i] * x[i]])
        rest == [k \in 1..(n - 1) |->
                    TakeAt(cumsum, Tail(diag_idxs))[k]
                        - TakeAt(cumsum, SubSeq(diag_idxs, 1, Len(diag_idxs) - 1))[k]]
    IN  <<0 + x[1] * x[1]>> \o [k \in 1..(n - 1) |-> 0 + rest[k]]

\* _LKJCholeskyCov.logp(x) as far as the variances: sd_vals, corr_diag and the
\* density are functions of variance and x[diag_idxs]
LKJCholeskyCov_logp(n, diag_idxs, x) ==
    [variance |-> LKJCholeskyCov_variance(n, diag_idxs, x),
     diag |-> TakeAt(x, diag_idxs)]

PackedDims == 1..MaxPacked

PackedEntries == {-1, 2}

NoPacked ==
    [called |-> FALSE, fn |-> "", eta |-> 0, n |-> 0, sd_ndim |-> 0,
     transform |-> KwAbsent, shape |-> KwAbsent, x |-> <<>>,
     self |-> PackedOutcome(None, 0, <<>>, <<>>),
     ret |-> [variance |-> <<>>, diag |-> <<>>]]

PackedInitCalls ==
    {[NoPacked EXCEPT !.fn = "__init__", !.eta = eta, !.n = n, !.sd_ndim = sd_ndim,
                      !.transform = transform, !.shape = shape] :
        eta \in 1..2, n \in PackedDims, sd_ndim \in 0..2,
        transform \in {KwAbsent, KwNone, KwValue}, shape \in {KwAbsent, KwNone, KwValue}}

\* logp is called on a constructed variable
PackedLogpCalls(n) ==
    {[NoPacked EXCEPT !.fn = "logp", !.eta = 1, !.n = n, !.x = x,
                      !.self = LKJCholeskyCov_init(1, n, 1, KwAbsent, KwAbsent)] :
        x \in [1..((n * (n + 1)) \div 2) -> PackedEntries]}

LKJCholeskyCov_init_call ==
    /\ ~lk.called /\ lk.fn = "__init__"
    /\ lk' = [lk EXCEPT !.called = TRUE,
                        !.self = LKJCholeskyCov_init(lk.eta, lk.n, lk.sd_ndim, lk.transform,
                                                     lk.shape)]
    /\ UNCHANGED NotPacked

LKJCholeskyCov_logp_call ==
    /\ ~lk.called /\ lk.fn = "logp"
    /\ lk' = [lk EXCEPT !.called = TRUE,
                        !.ret = LKJCholeskyCov_logp(lk.n, lk.self.diag_idxs, lk.x)]
    /\ UNCHANGED NotPacked

IdlePacked == lk = NoPacked

(***************************************************************************)
(* CARRV.rng_fn(rng, mu, W, alpha, tau, size).  W is a symmetric 0/1       *)
(* adjacency matrix in which every variable has a neighbour; alpha is      *)
(* alpha2 / 2, so the precision is kept as 2 Q, an integer matrix with the *)
(* zero pattern of Q.  perm_array is whatever permutation                  *)
(* reverse_cuthill_mckee returns.  An element of the samples is            *)
(* [mu, noise]: the mean added and the component (counted from 1, 0 for    *)
(* none) of cho_solve_banded's solution added to it; a solve of z = 0      *)
(* yields zeros.  Index arrays hold indices from 0.                        *)
(***************************************************************************)
\* np.asarray(W.sum(axis=0))[0]
ColumnSums(W) == [j \in 1..Len(W) |-> SumTo([i \in 1..Len(W) |-> W[i][j]], Len(W))]

\* 2 * tau.multiply(D - alpha.multiply(W)) with D = diags(s)
Precision2(W, alpha2, tau) ==
    LET s == ColumnSums(W)
    IN  [i \in 1..Len(W) |-> [j \in 1..Len(W) |->
            tau * (2 * (IF i = j THEN s[i] ELSE 0) - alpha2 * W[i][j])]]

np_argsort_unsorted(a) == a

\* np.argsort(a): the indices that sort a, ties in their order
np_argsort(a) ==
    LET rank(j) == Cardinality({i \in 1..Len(a) : a[i] < a[j] \/ (a[i] = a[j] /\ i < j)})
    IN  [k \in 1..Len(a) |-> (CHOOSE j \in 1..Len(a) : rank(j) = k - 1) - 1]

\* Q[perm_array, :][:, perm_array]
Reordered(Q, perm_array) ==
    [a \in 1..Len(Q) |-> [b \in 1..Len(Q) |-> Q[perm_array[a] + 1][perm_array[b] + 1]]]

\* Q.diagonal(u): empty from u = number of rows on
Diagonal(Q, u) == [k \in 1..(Len(Q) - u) |-> Q[k][k + u]]

np_count_nonzero(a) == Cardinality({k \in 1..Len(a) : a[k] # 0})

\* np.pad(a, (u, 0), constant_values=(0, 0))
PadLeft(a, u) == [k \in 1..(Len(a) + u) |-> IF k <= u THEN 0 ELSE a[k - u]]

\* np.broadcast_to(mu, size + mu.shape) when size is given; the rows are the
\* elements of np.ndindex(mu.shape[:-1])
BatchOf(mu, size) == IF size = <<>> THEN <<mu>> ELSE [b \in 1..size[1] |-> mu]

\* samples[idx] = cho_solve_banded((L, False), z[idx]) + mu[idx][perm_array]
SolvedPlusMean(mu_row, z_zero, perm_array) ==
    [a \in 1..Len(perm_array) |->
        [mu |-> mu_row[perm_array[a] + 1], noise |-> IF z_zero THEN 0 ELSE a]]

\* samples[..., inv_perm]
LastAxisTake(samples, inv_perm) ==
    [b \in 1..Len(samples) |-> [i \in 1..Len(inv_perm) |-> samples[b][inv_perm[i] + 1]]]

IndexPermutations(n) ==
    {p \in [1..n -> 0..(n - 1)] : \A i \in 1..n, j \in 1..n : p[i] = p[j] => i = j}

\* the symmetric 0/1 matrices with a zero diagonal and no row of zeros
Adjacencies(n) ==
    LET Pairs == {e \in (1..n) \X (1..n) : e[1] < e[2]}
        Matrix(E) == [i \in 1..n |-> [j \in 1..n |->
                         IF <<i, j>> \in E \/ <<j, i>> \in E THEN 1 ELSE 0]]
    IN  {Matrix(E) : E \in {E \in SUBSET Pairs : \A i \in 1..n : \E e \in E : i \in {e[1], e[2]}}}

Means(n) == [i \in 1..n |-> 10 * i]

NoCar ==
    [pc |-> "idle", mu |-> <<>>, W |-> <<>>, alpha2 |-> 0, tau |-> 1, size |-> <<>>,
     z_zero |-> <<>>, perm_array |-> <<>>, inv_perm |-> <<>>, Q |-> <<>>, Qb |-> <<>>,
     u |-> 0, samples |-> <<>>]

CarCalls(n) ==
    UNION {
        {[NoCar EXCEPT !.pc = "called", !.mu = Means(n), !.W = W, !.alpha2 = alpha2,
                       !.size = size, !.z_zero = z_zero, !.perm_array = perm_array] :
            W \in Adjacencies(n), alpha2 \in 0..1, perm_array \in IndexPermutations(n),
            z_zero \in {[b \in 1..(IF size = <<>> THEN 1 ELSE size[1]) |-> v] :
                          v \in BOOLEAN}} :
        size \in {<<>>} \cup {<<k>> : k \in 2..MaxBatch}}

\* rng_fn up to the loop: Q, the permutation and its inverse, the reordered Q,
\* Qb = Q.diagonal(), u = 1
rng_fn_reorder ==
    /\ car.pc = "called"
    /\ LET Q == Reordered(Precision2(car.W, car.alpha2, car.tau), car.perm_array)
       IN  car' = [car EXCEPT !.pc = "while", !.inv_perm = np_argsort(car.perm_array),
                              !.Q = Q, !.Qb = <<Diagonal(Q, 0)>>, !.u = 1]
    /\ UNCHANGED NotCar

\* one iteration of while np.count_nonzero(Q.diagonal(u)) > 0
rng_fn_superdiagonal ==
    /\ car.pc = "while"
    /\ np_count_nonzero(Diagonal(car.Q, car.u)) > 0
    /\ car' = [car EXCEPT !.Qb = <<PadLeft(Diagonal(car.Q, car.u), car.u)>> \o car.Qb,
                          !.u = car.u + 1]
    /\ UNCHANGED NotCar

\* the loop is left; the factorization, the draws, the solves and the
\* reordering of the last axis
rng_fn_sample ==
    /\ car.pc = "while"
    /\ ~(np_count_nonzero(Diagonal(car.Q, car.u)) > 0)
    /\ LET mu == BatchOf(car.mu, car.size)
           samples == [b \in 1..Len(mu) |->
                          SolvedPlusMean(mu[b], car.z_zero[b], car.perm_array)]
       IN  car' = [car EXCEPT !.pc = "returned",
                              !.samples = LastAxisTake(samples, car.inv_perm)]
    /\ UNCHANGED NotCar

IdleCar == car = NoCar

(***************************************************************************)
(* BlockedStep.stop_tuning, between calls of step.  self is the attribute  *)
(* dictionary of the step object (class attributes included); a subclass   *)
(* may define tune or not.                                                 *)
(***************************************************************************)
\* hasattr(self, name)
hasattr(self, name) == name \in DOMAIN self

stop_tuning_unconditional(self) ==
    [name \in DOMAIN self \cup {"tune"} |-> IF name = "tune" THEN PyBool(FALSE) ELSE self[name]]

\* BlockedStep.stop_tuning(self): the attributes afterwards
stop_tuning(self) ==
    IF hasattr(self, "tune") THEN [self EXCEPT !["tune"] = PyBool(FALSE)] ELSE self

\* step() of ArrayStep and of ArrayStepShared reads vars, fs, allvars, shared
\* and generates_stats and assigns no attribute of self
step_attributes(self) == self

TuneClasses == {"BlockedStep", "ArrayStep", "ArrayStepShared"}

TuneAttributes ==
    {("scaling" :> PyObj("scaling"))}
    \cup {("scaling" :> PyObj("scaling")) @@ ("tune" :> PyBool(b)) : b \in BOOLEAN}

NoTune == [cls |-> "", before |-> EmptyDict, self |-> EmptyDict, calls |-> <<>>]

stop_tuning_call ==
    /\ tn.cls \in TuneClasses /\ Len(tn.calls) < MaxCalls
    /\ tn' = [tn EXCEPT !.self = stop_tuning(tn.self), !.calls = Append(tn.calls, "stop_tuning")]
    /\ UNCHANGED NotTune

\* a step() call of one of the array step classes (BlockedStep.step is abstract)
step_call ==
    /\ tn.cls \in {"ArrayStep", "ArrayStepShared"} /\ Len(tn.calls) < MaxCalls
    /\ tn' = [tn EXCEPT !.self = step_attributes(tn.self), !.calls = Append(tn.calls, "step")]
    /\ UNCHANGED NotTune

IdleTune == tn = NoTune

(***************************************************************************)
(* The specifications, one per subsystem.                                  *)
(***************************************************************************)
InitStep ==
    /\ IdleTune
    /\ IdleCar
    /\ IdlePacked
    /\ IdleFactor
    /\ IdleWishart
    /\ stepobj \in ArrayStepObjs \cup ArrayStepSharedObjs
    /\ heap \in {<<p>> : p \in StartPoints}
    /\ shared_value = [name \in stepobj.shared |-> MakeArray(heap[1][name].shape, 0)]
    /\ last = NoCall
    /\ IdleMetrop /\ IdleNew /\ IdleBound /\ IdleQuad /\ IdleLogp /\ IdleConstruct /\ IdlePopulation

NextStep == ArrayStep_step \/ ArrayStepShared_step

SpecStep == InitStep /\ [][NextStep]_vars

InitMetrop == IdleStep /\ IdleMetrop /\ IdleNew /\ IdleBound /\ IdleQuad /\ IdleLogp /\ IdleConstruct /\ IdlePopulation /\ IdleWishart /\ IdleFactor /\ IdlePacked /\ IdleCar /\ IdleTune

NextMetrop == Metrop_select

SpecMetrop == InitMetrop /\ [][NextMetrop]_vars

InitNew ==
    /\ IdleTune
    /\ IdleCar
    /\ IdlePacked
    /\ IdleFactor
    /\ IdleWishart
    /\ IdleStep /\ IdleMetrop /\ IdleBound /\ IdleQuad /\ IdleLogp /\ IdleConstruct /\ IdlePopulation
    /\ \E call \in NewCalls :
          /\ call.how = "model" => call.given.t = "list"
          /\ made = [NoNew EXCEPT !.call = call]

NextNew == BlockedStep_new_call \/ BlockedStep_new_again

SpecNew == InitNew /\ [][NextNew]_vars

InitBound ==
    /\ IdleTune
    /\ IdleCar
    /\ IdlePacked
    /\ IdleFactor
    /\ IdleWishart
    /\ IdleStep /\ IdleMetrop /\ IdleNew /\ IdleQuad /\ IdleLogp /\ IdleConstruct /\ IdlePopulation
    /\ \E logp \in Exprs, conditions \in CondLists, bc \in BOOLEAN, cb \in BOOLEAN :
          bd = [called |-> FALSE, logp |-> logp, conditions |-> conditions,
                broadcast_conditions |-> bc, check_bounds |-> cb,
                ret |-> Scalar(NaN), ret_all |-> Scalar(NaN)]

NextBound == Bound_call

SpecBound == InitBound /\ [][NextBound]_vars

InitQuad ==
    /\ IdleTune
    /\ IdleCar
    /\ IdlePacked
    /\ IdleFactor
    /\ IdleWishart
    /\ IdleStep /\ IdleMetrop /\ IdleNew /\ IdleBound /\ IdleLogp /\ IdleConstruct /\ IdlePopulation
    /\ \E Sigma \in QuadArgs, cov \in QuadArgs, chol \in QuadArgs, tau \in QuadArgs,
          lower \in BOOLEAN :
          qm = [NoDist EXCEPT !.Sigma = Sigma, !.cov = cov, !.chol = chol, !.tau = tau,
                              !.lower = lower]

NextQuad == MvNormal_dist \/ MvStudentT_dist

SpecQuad == InitQuad /\ [][NextQuad]_vars

InitLogp ==
    /\ IdleTune
    /\ IdleCar
    /\ IdlePacked
    /\ IdleFactor
    /\ IdleWishart
    /\ IdleStep /\ IdleMetrop /\ IdleNew /\ IdleBound /\ IdleQuad /\ IdleConstruct /\ IdlePopulation
    /\ lp \in MvLogpCalls \cup MatrixLogpCalls \cup KroneckerLogpCalls

NextLogp ==
    \/ MvNormal_logp_call \/ MvStudentT_logp_call
    \/ MatrixNormal_logp_call \/ KroneckerNormal_logp_call

SpecLogp == InitLogp /\ [][NextLogp]_vars

InitSimplex ==
    /\ IdleTune
    /\ IdleCar
    /\ IdlePacked
    /\ IdleFactor
    /\ IdleWishart
    /\ IdleStep /\ IdleMetrop /\ IdleNew /\ IdleBound /\ IdleQuad /\ IdleConstruct /\ IdlePopulation
    /\ lp \in MultinomialCalls \cup DirichletCalls

NextSimplex == Multinomial_logp_call \/ Dirichlet_logp_call

SpecSimplex == InitSimplex /\ [][NextSimplex]_vars

InitConstruct ==
    /\ IdleTune
    /\ IdleCar
    /\ IdlePacked
    /\ IdleFactor
    /\ IdleWishart
    /\ IdleStep /\ IdleMetrop /\ IdleNew /\ IdleBound /\ IdleQuad /\ IdleLogp
    /\ IdlePopulation
    /\ ct \in LKJCorrCalls \cup KroneckerCalls \cup MatrixCalls

NextConstruct == LKJCorr_init_call \/ KroneckerNormal_dist_call \/ MatrixNormal_dist_call

SpecConstruct == InitConstruct /\ [][NextConstruct]_vars

InitPopulation ==
    /\ IdleTune
    /\ IdleCar
    /\ IdlePacked
    /\ IdleFactor
    /\ IdleWishart
    /\ IdleStep /\ IdleMetrop /\ IdleNew /\ IdleBound /\ IdleQuad /\ IdleLogp
    /\ IdleConstruct
    /\ \E items \in Populations, chain_index \in ChainIndexes :
          pop = [NoPopulation EXCEPT !.population.items = items, !.chain_index = chain_index]

NextPopulation == link_population_call

SpecPopulation == InitPopulation /\ [][NextPopulation]_vars

InitWishart ==
    /\ IdleTune
    /\ IdleCar
    /\ IdlePacked
    /\ IdleFactor
    /\ IdleStep /\ IdleMetrop /\ IdleNew /\ IdleBound /\ IdleQuad /\ IdleLogp
    /\ IdleConstruct /\ IdlePopulation
    /\ \E p \in Dims : wb \in WishartCalls(p)

NextWishart == WishartBartlett_call

SpecWishart == InitWishart /\ [][NextWishart]_vars

InitFactor ==
    /\ IdleTune
    /\ IdleCar
    /\ IdlePacked
    /\ IdleStep /\ IdleMetrop /\ IdleNew /\ IdleBound /\ IdleQuad /\ IdleLogp
    /\ IdleConstruct /\ IdlePopulation /\ IdleWishart
    /\ qf \in FactorCalls

NextFactor == quaddist_chol_call \/ quaddist_tau_call

SpecFactor == InitFactor /\ [][NextFactor]_vars

InitPacked ==
    /\ IdleTune
    /\ IdleCar
    /\ IdleStep /\ IdleMetrop /\ IdleNew /\ IdleBound /\ IdleQuad /\ IdleLogp
    /\ IdleConstruct /\ IdlePopulation /\ IdleWishart /\ IdleFactor
    /\ \/ lk \in PackedInitCalls
       \/ \E n \in PackedDims : lk \in PackedLogpCalls(n)

NextPacked == LKJCholeskyCov_init_call \/ LKJCholeskyCov_logp_call

SpecPacked == InitPacked /\ [][NextPacked]_vars

InitCar ==
    /\ IdleTune
    /\ IdleStep /\ IdleMetrop /\ IdleNew /\ IdleBound /\ IdleQuad /\ IdleLogp
    /\ IdleConstruct /\ IdlePopulation /\ IdleWishart /\ IdleFactor /\ IdlePacked
    /\ \E n \in 2..MaxSites : car \in CarCalls(n)

NextCar == rng_fn_reorder \/ rng_fn_superdiagonal \/ rng_fn_sample

SpecCar == InitCar /\ [][NextCar]_vars

\* the step methods that work through shared variables
InitShared ==
    /\ IdleTune
    /\ stepobj \in ArrayStepSharedObjs \cup GradientSharedStepObjs
    /\ heap \in {<<p>> : p \in StartPoints}
    /\ shared_value = [name \in stepobj.shared |-> MakeArray(heap[1][name].shape, 0)]
    /\ last = NoCall
    /\ IdleMetrop /\ IdleNew /\ IdleBound /\ IdleQuad /\ IdleLogp /\ IdleConstruct
    /\ IdlePopulation /\ IdleWishart /\ IdleFactor /\ IdlePacked /\ IdleCar

NextShared == ArrayStepShared_step \/ GradientSharedStep_step

SpecShared == InitShared /\ [][NextShared]_vars

InitTune ==
    /\ IdleStep /\ IdleMetrop /\ IdleNew /\ IdleBound /\ IdleQuad /\ IdleLogp
    /\ IdleConstruct /\ IdlePopulation /\ IdleWishart /\ IdleFactor /\ IdlePacked /\ IdleCar
    /\ \E cls \in TuneClasses, self \in TuneAttributes :
          tn = [NoTune EXCEPT !.cls = cls, !.before = self, !.self = self]

NextTune == stop_tuning_call \/ step_call

SpecTune == InitTune /\ [][NextTune]_vars

(***************************************************************************)
(* Properties of step().                                                   *)
(***************************************************************************)
Declared == SeqRange(stepobj.vars)

ArgPoint == heap[last.arg]

RetPoint == heap[last.ret.point]

AgreeOn(names, p, q) == \A v \in names : v \in DOMAIN p /\ v \in DOMAIN q /\ p[v] = q[v]

\* C1: when astep hands back the flattened vector it was given, the returned
\* point equals the input point on every declared variable, exactly; and after
\* any number of consecutive calls in which it did so, the current point still
\* equals the starting point on them.
C1_RoundTrip ==
    last.n > 0 =>
        /\ (last.astep_out = last.astep_in => AgreeOn(Declared, RetPoint, ArgPoint))
        /\ (last.all_same => AgreeOn(Declared, heap[Len(heap)], heap[1]))

C1_Witness ==
    /\ last.n >= 2
    /\ last.all_same
    /\ Len(DictKeys(stepobj.vars)) >= 2
    /\ \E v \in Declared : Len(ArgPoint[v].shape) = 2
    /\ AgreeOn(Declared, heap[Len(heap)], heap[1])

InfoNames(rv) == {rv.point_map_info[i].name : i \in 1..Len(rv.point_map_info)}

Frame ==
    /\ DOMAIN RetPoint = DOMAIN ArgPoint
    /\ AgreeOn(DOMAIN ArgPoint \ Declared, RetPoint, ArgPoint)
    /\ ArgPoint = last.point_in

DrawBelow == ms.u.zero \/ -ms.u.e < ms.mr.v

C4_PosInfAccepted ==
    (ms.called /\ ms.mr = PosInf) => (ms.ret.value = ms.q /\ ms.ret.accepted)

\* C5: with log_ratio = -infinity or NaN metrop_select returns (current, False)
\* for every draw.
C5_NegInfNaNRejected ==
    (ms.called /\ ms.mr \in {NegInf, NaN}) => (ms.ret.value = ms.q0 /\ ~ms.ret.accepted)

C5_Witness ==
    /\ ms.called /\ ms.mr = NaN /\ ms.u.zero
    /\ ms.ret.value = ms.q0 /\ ~ms.ret.accepted /\ ms.q.val # ms.q0.val

(***************************************************************************)
(* Properties of BlockedStep.__new__.                                      *)
(***************************************************************************)
\* the variable list the call is over, and the blocked flag in force
GivenList == IF made.call.given.t = "list" THEN made.call.given.items ELSE <<made.call.given>>

BlockedInForce ==
    IF made.call.blocked.value.t = "bool" THEN made.call.blocked.value.b
    ELSE IF made.call.cls.has_default_blocked THEN made.call.cls.default_blocked.b
    ELSE TRUE

\* C6: unblocked over k > 1 variables gives a CompoundStep of exactly k
\* sub-steps of the class, the i-th bound to the single i-th variable; blocked,
\* or over exactly one variable, gives one step of the class bound to the whole
\* list; without blocked, default_blocked decides, True when the class has none.
C6_FanOut ==
    made.called =>
        /\ (~BlockedInForce /\ Len(GivenList) > 1) =>
              /\ made.ret.kind = "CompoundStep"
              /\ Len(made.ret.methods) = Len(GivenList)
              /\ \A i \in 1..Len(GivenList) :
                    /\ made.ret.methods[i].kind = "step"
                    /\ made.ret.methods[i].cls = made.call.cls.name
                    /\ made.ret.methods[i].init.args[1] = PyList(<<GivenList[i]>>)
                    /\ "vars" \notin DOMAIN made.ret.methods[i].init.kwargs
        /\ ((BlockedInForce /\ Len(GivenList) >= 1) \/ Len(GivenList) = 1) =>
              /\ made.ret.kind = "step"
              /\ made.ret.cls = made.call.cls.name
              /\ made.ret.newargs.args[1] = PyList(GivenList)
              /\ made.call.how = "positional" => made.ret.init.args[1] = made.call.given
              /\ made.call.how = "keyword" => made.ret.init.kwargs["vars"] = made.call.given

C6_Witness ==
    /\ made.called
    /\ ~made.call.blocked.given /\ made.call.cls.has_default_blocked
    /\ ~BlockedInForce /\ Len(GivenList) = 3
    /\ GivenList[1] # GivenList[2]
    /\ made.ret.kind = "CompoundStep" /\ Len(made.ret.methods) = 3
    /\ made.ret.methods[2].init.args[1] = PyList(<<GivenList[2]>>)

(***************************************************************************)
(* Properties of bound.                                                    *)
(***************************************************************************)
\* every condition holds at position idx of the broadcast result
HoldAt(idx) == \A i \in 1..Len(bd.conditions) : ElemAt(bd.conditions[i], idx) # 0

\* every element of every condition is true
HoldFully ==
    \A i \in 1..Len(bd.conditions) :
        \A idx \in IndexSet(bd.conditions[i].shape) : bd.conditions[i].at[idx] # 0

RECURSIVE BroadcastAll(_, _)
BroadcastAll(shape, conds) ==
    IF conds = <<>> THEN shape
    ELSE BroadcastAll(BroadcastShape(shape, Head(conds).shape), Tail(conds))

AllNegInf(shape) == [shape |-> shape, at |-> [idx \in IndexSet(shape) |-> NegInf]]

\* C7: with broadcast_conditions=True (and bounds checking on) the result has,
\* at every position of the broadcast of expr and the conditions, the value of
\* expr where all conditions hold there and -inf where one fails.
C7_Elementwise ==
    (bd.called /\ bd.broadcast_conditions /\ bd.check_bounds) =>
        /\ bd.ret.shape = BroadcastAll(bd.logp.shape, bd.conditions)
        /\ \A idx \in IndexSet(bd.ret.shape) :
              bd.ret.at[idx] = IF HoldAt(idx) THEN ElemAt(bd.logp, idx) ELSE NegInf

C7_Witness ==
    /\ bd.called /\ bd.broadcast_conditions /\ bd.check_bounds
    /\ Len(bd.conditions) = 2
    /\ bd.conditions[1].shape # bd.conditions[2].shape
    /\ bd.conditions[1] # Scalar(1) /\ bd.conditions[2].shape = <<2, 1>>
    /\ bd.logp.shape = <<2, MaxN>>
    /\ \E i, j \in IndexSet(bd.ret.shape) :
          /\ HoldAt(i) /\ bd.ret.at[i] = bd.logp.at[i] /\ bd.ret.at[i] # NegInf
          /\ ~HoldAt(j) /\ bd.ret.at[j] = NegInf
          /\ ElemAt(bd.conditions[1], j) # 0

\* C8: with broadcast_conditions=False (and bounds checking on) the result is x
\* unchanged when every element of every condition is true (so for no
\* conditions) and -inf in every element otherwise, never a mixture; reducing
\* each condition with all() beforehand gives the same result.
C8_ScalarReduction ==
    (bd.called /\ ~bd.broadcast_conditions /\ bd.check_bounds) =>
        /\ bd.ret = IF HoldFully THEN bd.logp ELSE AllNegInf(bd.logp.shape)
        /\ bd.ret_all = bd.ret

C8_Witness ==
    /\ bd.called /\ ~bd.broadcast_conditions /\ bd.check_bounds
    /\ Len(bd.conditions) = 2
    /\ bd.logp.shape = <<2, MaxN>>
    /\ bd.conditions[1].shape = <<2, MaxN>>
    /\ \E i, j \in IndexSet(<<2, MaxN>>) :
          bd.conditions[1].at[i] = 0 /\ bd.conditions[1].at[j] # 0
    /\ bd.conditions[2] = Scalar(1)
    /\ bd.ret = AllNegInf(<<2, MaxN>>) /\ bd.ret # bd.logp

\* C9: with check_bounds=False bound returns expr unchanged whatever the
\* conditions; with it on, the same call is -inf where a condition fails (in
\* every element when the conditions are reduced to a scalar).
C9_CheckBounds ==
    bd.called =>
        /\ ~bd.check_bounds => bd.ret = bd.logp
        /\ (bd.check_bounds /\ bd.broadcast_conditions) =>
              \A idx \in IndexSet(bd.ret.shape) : ~HoldAt(idx) => bd.ret.at[idx] = NegInf
        /\ (bd.check_bounds /\ ~bd.broadcast_conditions /\ ~HoldFully) =>
              \A idx \in IndexSet(bd.ret.shape) : bd.ret.at[idx] = NegInf

C9_Witness ==
    /\ bd.called /\ ~bd.check_bounds
    /\ bd.logp.shape = <<MaxN>>
    /\ Len(bd.conditions) = 1 /\ bd.conditions[1].shape = <<MaxN>>
    /\ \E i, j \in IndexSet(<<MaxN>>) :
          bd.conditions[1].at[i] = 0 /\ bd.conditions[1].at[j] # 0
    /\ bd.ret = bd.logp
    /\ \A idx \in IndexSet(<<MaxN>>) : bd.ret.at[idx] # NegInf

(***************************************************************************)
(* Properties of quaddist_matrix.                                          *)
(***************************************************************************)
Given == {a \in {"cov", "chol", "tau"} : ~IsNone(qm.qargs[a])}

Identity2(d) == <<<<d, 0>>, <<0, d>>>>

\* C10: quaddist_matrix raises ValueError unless exactly one of cov, tau and
\* chol is given, and when the one given is not 2-dimensional; otherwise it
\* returns cov itself, the inverse of tau, or L.L^T where L is chol, transposed
\* first when lower is false.
C10_ExactlyOne ==
    (qm.called /\ qm.qargs.reached) =>
        /\ Cardinality(Given) # 1 => qm.ret.exc = "ValueError"
        /\ \A a \in Given :
              Given = {a} =>
                 /\ qm.qargs[a].ndim # 2 => qm.ret.exc = "ValueError"
                 /\ qm.qargs[a].ndim = 2 =>
                       /\ qm.ret.exc = None
                       /\ a = "cov" => qm.ret.cov = [num |-> qm.qargs.cov.m, den |-> 1]
                       /\ a = "tau" =>
                             /\ qm.ret.cov.den # 0
                             /\ Dot(qm.qargs.tau.m, qm.ret.cov.num) = Identity2(qm.ret.cov.den)
                       /\ a = "chol" =>
                             LET L == IF qm.qargs.lower THEN qm.qargs.chol.m
                                      ELSE Transpose(qm.qargs.chol).m
                             IN  qm.ret.cov = [num |-> Dot(L, Transpose(Tensor(2, L)).m),
                                               den |-> 1]

C10_Witness ==
    /\ qm.called /\ qm.qargs.reached /\ qm.fn = "MvStudentT.dist"
    /\ Given = {"chol"} /\ ~qm.qargs.lower /\ qm.qargs.chol.ndim = 2
    /\ qm.ret.exc = None
    /\ qm.ret.cov.num # Dot(qm.qargs.chol.m, Transpose(qm.qargs.chol).m)

(***************************************************************************)
(* Properties of the log-densities.                                        *)
(***************************************************************************)
IsNegInf(x) == x.kind = "inf" /\ x.v = -1

AllNegInfinity(t) == \A idx \in IndexSet(t.shape) : IsNegInf(t.at[idx])

AllFinite(t) == \A idx \in IndexSet(t.shape) : t.at[idx].kind = "fin"

\* an MvNormal.logp call on a 1- or 2-dimensional value, bounds checked
MvNormalCall ==
    /\ lp.called /\ lp.fn = "MvNormal.logp" /\ lp.check_bounds
    /\ Len(lp.value.shape) \in {1, 2}

CovsOf ==
    IF lp.fn = "KroneckerNormal.logp" THEN {lp.covs[i] : i \in 1..Len(lp.covs)} ELSE {lp.cov}

\* the ranks of value a logp accepts
RankAccepted == IF lp.fn = "MatrixNormal.logp" THEN {2} ELSE {1, 2}

\* C12: for every covariance-based distribution (MvNormal, MvStudentT,
\* MatrixNormal built from rowcov or colcov, KroneckerNormal), evaluating the
\* log-density with a (symmetric) covariance that is not positive definite
\* never raises and yields negative infinity.
C12_NeverRaisesNegInf ==
    /\ lp.called /\ lp.check_bounds /\ Len(lp.value.shape) \in RankAccepted
    /\ \E m \in CovsOf : Symmetric(m) /\ ~PositiveDefinite(m)
    => lp.ret.exc = None /\ AllNegInfinity(lp.ret.out)

(***************************************************************************)
(* Properties of Multinomial.logp and Dirichlet.logp.                      *)
(***************************************************************************)
SameFloat(x, y) == x.kind = y.kind /\ (x.kind # "nan" => x.v = y.v)

SameTensor(s, t) ==
    s.shape = t.shape /\ \A idx \in IndexSet(s.shape) : SameFloat(s.at[idx], t.at[idx])

MultinomialCall == lp.called /\ lp.fn = "Multinomial.logp" /\ lp.check_bounds

InSupport(row, n) ==
    /\ \A i \in 1..Len(row) : RLe(RInt(0), row[i])
    /\ REq(RSum(row), n)

\* C13: for n = 6 and p = [0.2, 0.3, 0.5], Multinomial.logp is finite for every
\* integer vector with all components >= 0 and sum n, and negative infinity
\* for every other value.
C13_FiniteOnSupport ==
    MultinomialCall /\ lp.n = RInt(6) /\ lp.p = P0
        => IF InSupport(lp.vec.rows[1], lp.n) THEN AllFinite(lp.ret.out)
           ELSE AllNegInfinity(lp.ret.out)

C13_Witness ==
    /\ MultinomialCall /\ lp.n = RInt(6) /\ lp.p = P0
    /\ lp.vec.rows[1] = <<RInt(1), RInt(2), RInt(3)>>
    /\ AllFinite(lp.ret.out)

\* value >= 0, sum(value) == n, 0 <= p, p <= 1, sum(p) == 1, n >= 0
AllConstraints ==
    /\ InSupport(lp.vec.rows[1], lp.n)
    /\ \A i \in 1..Len(lp.p) : RLe(RInt(0), lp.p[i]) /\ RLe(lp.p[i], RInt(1))
    /\ REq(RSum(lp.p), RInt(1))
    /\ RLe(RInt(0), lp.n)

\* C14: Multinomial.logp returns negative infinity whenever any one of the
\* constraints value >= 0, sum(value) == n, 0 <= p, p <= 1, sum(p) == 1, n >= 0
\* fails (a negative entry of p included), and the log-density expression
\* when all of them hold.
C14_AnyConstraintFails ==
    MultinomialCall
        => IF AllConstraints
           THEN SameTensor(lp.ret.out, MultinomialExpr(lp.vec, lp.n, lp.p))
           ELSE AllNegInfinity(lp.ret.out)

DirichletCall == lp.called /\ lp.fn = "Dirichlet.logp" /\ lp.check_bounds

ValidComponents ==
    /\ \A r \in 1..Len(lp.vec.rows) : \A i \in 1..Len(lp.a) :
          RLe(RInt(0), lp.vec.rows[r][i]) /\ RLe(lp.vec.rows[r][i], RInt(1))
    /\ \A i \in 1..Len(lp.a) : RPos(lp.a[i])

\* C15: Dirichlet.logp returns negative infinity for the whole result whenever
\* any component of value is negative or greater than 1 or any component of a
\* is not strictly positive (one violating component anywhere in a batch makes
\* every returned element negative infinity), and the log-density expression
\* when every component satisfies 0 <= value <= 1 and a > 0.
C15_ScalarBound ==
    DirichletCall
        => /\ lp.ret.exc = None
           /\ lp.ret.out.shape = BatchShape(lp.vec)
           /\ IF ValidComponents
              THEN SameTensor(lp.ret.out, DirichletExpr(lp.vec, lp.a))
              ELSE AllNegInfinity(lp.ret.out)

\* a batch whose first row is valid and whose second row holds 3/2: both
\* elements of the result are negative infinity
C15_Witness ==
    /\ DirichletCall
    /\ lp.vec = Vec(2, <<<<Rat(1, 2), Rat(1, 2)>>, <<Rat(3, 2), RInt(0)>>>>)
    /\ lp.a = <<RInt(1), RInt(2)>>
    /\ lp.ret.out.shape = <<2>>
    /\ AllNegInfinity(lp.ret.out)

(***************************************************************************)
(* Properties of the constructors.                                         *)
(***************************************************************************)
LKJCorrCall == ct.called /\ ct.fn = "LKJCorr.__init__"

Legacy == ct.p.given /\ ct.n.given /\ ~ct.eta.given

Current == ct.eta.given /\ ct.n.given /\ ~ct.p.given

\* the variable of dimension n has n(n-1)/2 free entries: the entries of
\* tri_index above the diagonal number them 0..shape-1, mirrored below
FreeEntries(n) ==
    /\ 2 * ct.ret.shape = n * (n - 1)
    /\ \A k \in 0..(ct.ret.shape - 1) :
          Cardinality({ij \in (1..n) \X (1..n) :
                          ij[1] < ij[2] /\ ct.ret.tri_index[ij[1]][ij[2]] = k}) = 1
    /\ \A i \in 1..n, j \in 1..n : ct.ret.tri_index[i][j] = ct.ret.tri_index[j][i]

\* C16: LKJCorr with n and p given and eta omitted warns (DeprecationWarning)
\* and proceeds with dimension p and shape parameter n; with eta and n given
\* and p omitted it uses them as given; every other combination raises
\* ValueError.  The variable has n(n-1)/2 free entries for dimension n.
C16_LKJCorrArguments ==
    LKJCorrCall
        => IF Legacy
           THEN /\ ct.ret.exc = None
                /\ ct.ret.warnings[1] = "DeprecationWarning"
                /\ ct.ret.n = ct.p.v /\ ct.ret.eta = ct.n.v
                /\ FreeEntries(ct.p.v)
           ELSE IF Current
           THEN /\ ct.ret.exc = None
                /\ ct.ret.n = ct.n.v /\ ct.ret.eta = ct.eta.v
                /\ FreeEntries(ct.n.v)
           ELSE ct.ret.exc = "ValueError"

\* the legacy form LKJCorr(n=2, p=3): dimension 3, eta 2, three free entries
C16_Witness ==
    /\ LKJCorrCall /\ Legacy
    /\ ct.n.v = 2 /\ ct.p.v = 3
    /\ ct.ret.n = 3 /\ ct.ret.eta = 2 /\ ct.ret.shape = 3
    /\ Len(ct.ret.warnings) = 2

KroneckerCall == ct.called /\ ct.fn = "KroneckerNormal.dist"

GivenCount ==
    (IF ct.covs.given THEN 1 ELSE 0) + (IF ct.chols.given THEN 1 ELSE 0)
        + (IF ct.evds.given THEN 1 ELSE 0)

Supplied ==
    IF ct.covs.given THEN ct.covs.v ELSE IF ct.chols.given THEN ct.chols.v ELSE ct.evds.v

\* entry (i, j) of the covariance the k-th supplied item stands for
CovarianceEntry(k, i, j) ==
    IF ct.covs.given THEN ct.covs.v[k][i][j]
    ELSE IF ct.chols.given
    THEN ct.chols.v[k][i][1] * ct.chols.v[k][j][1] + ct.chols.v[k][i][2] * ct.chols.v[k][j][2]
    ELSE ct.evds.v[k].Q[i][1] * ct.evds.v[k].eig[1] * ct.evds.v[k].Q[j][1]
            + ct.evds.v[k].Q[i][2] * ct.evds.v[k].eig[2] * ct.evds.v[k].Q[j][2]

PassedOn ==
    /\ ct.ret.exc = None
    /\ Len(ct.ret.covs) = Len(Supplied)
    /\ \A k \in 1..Len(Supplied) : \A i \in 1..2, j \in 1..2 :
          ct.ret.covs[k][i][j] = CovarianceEntry(k, i, j)
    /\ ct.ret.sigma = (IF ct.sigma.given THEN ct.sigma.v ELSE 0)

\* C17 as stated: ValueError whenever the number of non-None arguments among
\* covs, chols and evds is not exactly one; with exactly one, a list of
\* covariances of the same length and order is passed on, and a sigma that is
\* None or 0 is passed on as 0.
C17_ExactlyOnePassedOn ==
    KroneckerCall => IF GivenCount # 1 THEN ct.ret.exc = "ValueError" ELSE PassedOn

\* C17: the same, for every call in which evds, when it is the argument
\* given, holds at least one eigendecomposition.
C17_ExactlyOneNonEmptyEvds ==
    KroneckerCall /\ ~(ct.evds.given /\ ct.evds.v = <<>>)
        => IF GivenCount # 1 THEN ct.ret.exc = "ValueError" ELSE PassedOn

\* two different eigendecompositions and no sigma
C17_Witness ==
    /\ KroneckerCall /\ GivenCount = 1
    /\ ct.evds.given /\ Len(ct.evds.v) = 2 /\ ct.evds.v[1] # ct.evds.v[2]
    /\ ~ct.sigma.given
    /\ PassedOn /\ ct.ret.sigma = 0 /\ ct.ret.covs[1] # ct.ret.covs[2]

MatrixCall == ct.called /\ ct.fn = "MatrixNormal.dist"

ExactlyOne(a, b) == IsNone(a) # IsNone(b)

\* C18: MatrixNormal.dist raises NotImplementedError whenever a size other
\* than None is passed, whatever the other arguments are; a shape argument is
\* dropped with a DeprecationWarning, not rejected; after that ValueError is
\* raised unless exactly one of rowcov/rowchol and exactly one of
\* colcov/colchol is supplied.
C18_SizeFirst ==
    MatrixCall
        => IF ct.size.present /\ ~ct.size.none
           THEN ct.ret.exc = "NotImplementedError" /\ ct.ret.warnings = <<>>
           ELSE /\ ct.ret.exc # "NotImplementedError"
                /\ ct.ret.warnings = (IF ct.shape.present THEN <<"DeprecationWarning">> ELSE <<>>)
                /\ "shape" \notin ct.ret.kwargs
                /\ ~(ExactlyOne(ct.rowcov, ct.rowchol) /\ ExactlyOne(ct.colcov, ct.colchol))
                      => ct.ret.exc = "ValueError"
                /\ ct.ret.exc = None
                      => ExactlyOne(ct.rowcov, ct.rowchol) /\ ExactlyOne(ct.colcov, ct.colchol)

\* a size together with both rowcov and rowchol and a shape
C18_Witness ==
    /\ MatrixCall
    /\ ct.size.present /\ ~ct.size.none /\ ct.shape.present
    /\ ~IsNone(ct.rowcov) /\ ~IsNone(ct.rowchol)
    /\ ct.ret.exc = "NotImplementedError"

\* C19: quaddist_parse (so MvNormal.logp and MvStudentT.logp) and
\* KroneckerNormal.logp raise ValueError when value has 0 or more than 2
\* dimensions, return a single result for a 1-dimensional value and one result
\* per row for a 2-dimensional one.
C19_ValueRank ==
    lp.called /\ lp.fn \in {"MvNormal.logp", "MvStudentT.logp", "KroneckerNormal.logp"}
        => LET ndim == Len(lp.value.shape)
               parsed == quaddist_parse(lp.value, Mu, lp.cov, "cov")
           IN  /\ ndim \notin {1, 2} => lp.ret.exc = "ValueError"
               /\ ndim = 1 => lp.ret.exc = None /\ lp.ret.out.shape = <<>>
               /\ ndim = 2 => lp.ret.exc = None /\ lp.ret.out.shape = <<lp.value.shape[1]>>
               /\ lp.fn # "KroneckerNormal.logp"
                     => /\ ndim \notin {1, 2} => parsed.exc = "ValueError"
                        /\ ndim = 1 => parsed.exc = None /\ parsed.dist.shape = <<>>
                        /\ ndim = 2 => /\ parsed.exc = None
                                       /\ parsed.dist.shape = <<lp.value.shape[1]>>

\* a vector handed to MvNormal.logp: one result, not a batch of one
C19_Witness ==
    /\ lp.called /\ lp.fn = "MvNormal.logp"
    /\ lp.value.shape = <<2>>
    /\ lp.ret.exc = None /\ lp.ret.out.shape = <<>>

(***************************************************************************)
(* Properties of link_population.                                          *)
(***************************************************************************)
Others == {c \in 0..(Len(pop.before) - 1) : c # pop.chain_index}

\* C20: link_population raises ValueError exactly when fewer than two chains
\* other than chain_index exist; otherwise this_chain is chain_index and
\* other_chains holds exactly the indices 0..len(population)-1 other than
\* chain_index, ascending; the population list is never modified.
C20_LinkPopulation ==
    pop.called
        => /\ pop.exc = "ValueError" <=> Cardinality(Others) < 2
           /\ pop.exc \in {None, "ValueError"}
           /\ pop.exc = None
                 => /\ pop.self.this_chain = pop.chain_index
                    /\ Len(pop.self.other_chains) = Cardinality(Others)
                    /\ {pop.self.other_chains[i] : i \in 1..Len(pop.self.other_chains)} = Others
                    /\ \A i \in 1..(Len(pop.self.other_chains) - 1) :
                          pop.self.other_chains[i] < pop.self.other_chains[i + 1]
           /\ pop.population.items = pop.before
           /\ pop.self.population = pop.population.id

\* three chains, linked as chain 1
C20_Witness ==
    /\ pop.called /\ pop.exc = None
    /\ Len(pop.population.items) = 3 /\ pop.chain_index = 1
    /\ pop.self.other_chains = <<0, 2>>

(***************************************************************************)
(* Properties of WishartBartlett.                                          *)
(***************************************************************************)
\* C21: with a p x p scale matrix the auxiliary variable of the i-th diagonal
\* entry (i = 1..p) is chi-squared with nu - i + 1 degrees of freedom; there
\* are exactly p diagonal auxiliaries and p(p-1)/2 standard-normal ones.
C21_BartlettDegrees ==
    wb.called
        => /\ wb.ret.ChiSquared.shape = Len(wb.S)
           /\ 2 * wb.ret.Normal.shape = Len(wb.S) * (Len(wb.S) - 1)
           /\ wb.ret.Normal.mu = 0 /\ wb.ret.Normal.sigma = 1
           /\ \A i \in 1..Len(wb.S) : wb.ret.ChiSquared.nu[i] = wb.nu - i + 1

LowerTriangular(m) == \A i \in 1..Len(m), j \in 1..Len(m) : i < j => m[i][j] = 0

\* C22: with is_cholesky=False the base factor L is the lower-triangular
\* Cholesky factor of S (L L^T = S); A is lower-triangular with the square
\* roots of the chi-squared variables on its diagonal and the normal ones
\* strictly below it; the result is L A A^T L^T, or L A with
\* return_cholesky=True.
C22_BaseFactor ==
    wb.called /\ ~wb.is_cholesky
        => /\ LowerTriangular(wb.ret.L)
           /\ Dot(wb.ret.L, MatT(wb.ret.L)) = wb.S
           /\ LowerTriangular(wb.ret.A)
           /\ \A i \in 1..Len(wb.S) : wb.ret.A[i][i] * wb.ret.A[i][i] = wb.c_sample[i]
           /\ wb.ret.Deterministic =
                 (IF wb.return_cholesky THEN Dot(wb.ret.L, wb.ret.A)
                  ELSE Dot(Dot(Dot(wb.ret.L, wb.ret.A), MatT(wb.ret.A)), MatT(wb.ret.L)))

(***************************************************************************)
(* Properties of quaddist_chol and quaddist_tau.                           *)
(***************************************************************************)
\* every diagonal entry of the factor is a number above 0
DiagonalStrictlyPositive(f) == ~f.nan /\ RPos(f.d1) /\ RPos(f.d2)

FlagAndValidFactor ==
    /\ qf.ret.ok <=> DiagonalStrictlyPositive(qf.chol_mat)
    /\ qf.ret.ok => qf.ret.chol_cov = qf.chol_mat

\* the triangular solve divides by the diagonal only
SolveDefined == DiagonalStrictlyPositive(qf.ret.chol_cov)

RECURSIVE PackedOrder(_)
PackedOrder(n) ==
    IF n = 0 THEN <<>> ELSE PackedOrder(n - 1) \o [c \in 1..n |-> <<n - 1, c - 1>>]

\* positions (from 0) of the diagonal entries in packed storage
DiagonalPositions(n) ==
    {k - 1 : k \in {k \in 1..Len(PackedOrder(n)) : PackedOrder(n)[k][1] = PackedOrder(n)[k][2]}}

PackedInit == lk.called /\ lk.fn = "__init__"

\* C24: for every n >= 1 the packed vector has length n(n+1)/2 and the
\* diagonal index set cumsum(1..n) - 1 is exactly the set of positions of the
\* diagonal entries of an n x n lower-triangular matrix stored row by row
\* (row r has its diagonal at (r+1)(r+2)/2 - 1; {0, 2, 5} for n = 3); a
\* non-None transform or any shape keyword raises ValueError.
C24_DiagonalIndexes ==
    PackedInit
        => /\ (lk.transform.present /\ ~lk.transform.none) \/ lk.shape.present
                 => lk.self.exc = "ValueError"
           /\ lk.self.exc = None
                 => /\ 2 * lk.self.shape = lk.n * (lk.n + 1)
                    /\ lk.self.shape = Len(PackedOrder(lk.n))
                    /\ Len(lk.self.diag_idxs) = lk.n
                    /\ {lk.self.diag_idxs[i] : i \in 1..lk.n} = DiagonalPositions(lk.n)
                    /\ \A r \in 0..(lk.n - 1) :
                          2 * (lk.self.diag_idxs[r + 1] + 1) = (r + 1) * (r + 2)
                    /\ lk.n = 3 => {lk.self.diag_idxs[i] : i \in 1..lk.n} = {0, 2, 5}

\* n = 3 with no transform and no shape: the diagonal indices 0, 2, 5
C24_Witness ==
    /\ PackedInit /\ lk.n = 3 /\ lk.self.exc = None
    /\ lk.self.diag_idxs = <<0, 2, 5>> /\ lk.self.shape = 6

\* entry (r, c), from 0, of the matrix unpacked from x
Unpacked(n, x, r, c) ==
    IF c > r THEN 0
    ELSE x[CHOOSE k \in 1..Len(x) : PackedOrder(n)[k] = <<r, c>>]

\* entry (r, r) of L L^T for the matrix L unpacked from x
GramDiagonal(n, x, r) ==
    SumTo([k \in 1..n |-> Unpacked(n, x, r, k - 1) * Unpacked(n, x, r, k - 1)], n)

\* C25: the variance recovered for row 0 is x[0]^2 and for row i >= 1 it is
\* cumsum(x^2)[diag_i] - cumsum(x^2)[diag_(i-1)], the sum of the squares of
\* exactly the packed entries of row i, which is entry (i, i) of L L^T for the
\* unpacked matrix L.
C25_RowVariances ==
    lk.called /\ lk.fn = "logp"
        => /\ Len(lk.ret.variance) = lk.n
           /\ lk.ret.variance[1] = lk.x[1] * lk.x[1]
           /\ \A i \in 0..(lk.n - 1) :
                 /\ lk.ret.variance[i + 1] = GramDiagonal(lk.n, lk.x, i)
                 /\ lk.ret.variance[i + 1] =
                       SumTo([k \in 1..Len(lk.x) |->
                                 IF PackedOrder(lk.n)[k][1] = i THEN lk.x[k] * lk.x[k] ELSE 0],
                             Len(lk.x))

\* three rows whose sums of squares differ: 4, 1 and 9
C25_Witness ==
    /\ lk.called /\ lk.fn = "logp" /\ lk.n = 3
    /\ lk.x = <<2, -1, 2, 2, -1, 2>>
    /\ lk.ret.variance = <<4, 5, 9>>

(***************************************************************************)
(* Properties of CARRV.rng_fn.                                             *)
(***************************************************************************)
\* the position (from 1) at which variable i (from 1) sits in the reordered
\* system: row a of the reordered precision is row perm_array[a] of Q
PositionOf(i) == CHOOSE a \in 1..Len(car.perm_array) : car.perm_array[a] + 1 = i

\* C26: inv_perm is the inverse of perm_array, so component i of every
\* returned sample is mu[i] plus the noise solved for variable i, and mu
\* exactly with zero noise, for every permutation and batch index; the loop
\* over the superdiagonals makes at most as many iterations as Q has rows.
C26_PermutationUndone ==
    /\ car.pc \in {"while", "returned"}
          => /\ \A a \in 1..Len(car.perm_array) :
                   /\ car.inv_perm[car.perm_array[a] + 1] = a - 1
                   /\ car.perm_array[car.inv_perm[a] + 1] = a - 1
             /\ car.u - 1 <= Len(car.W)
             /\ Len(car.Qb) = car.u
    /\ car.pc = "returned"
          => /\ Len(car.samples) = (IF car.size = <<>> THEN 1 ELSE car.size[1])
             /\ \A b \in 1..Len(car.samples) : \A i \in 1..Len(car.mu) :
                   /\ car.samples[b][i].mu = car.mu[i]
                   /\ car.samples[b][i].noise = (IF car.z_zero[b] THEN 0 ELSE PositionOf(i))

\* a rotation of three variables (not its own inverse), a batch of two, noise
\* in the second row only, and two superdiagonals collected
C26_Witness ==
    /\ car.pc = "returned"
    /\ car.perm_array = <<1, 2, 0>> /\ car.inv_perm = <<2, 0, 1>>
    /\ car.size = <<2>> /\ car.z_zero = <<FALSE, FALSE>>
    /\ car.u = 3
    /\ car.samples[2][1] = [mu |-> 10, noise |-> 3]

(***************************************************************************)
(* Properties of the shared-variable step methods.                         *)
(***************************************************************************)
\* C27: in every ArrayStepShared.step(point) call each shared variable
\* registered at construction holds point[name] when astep is invoked;
\* GradientSharedStep.step has set the function's _extra_are_set flag by
\* then; after any sequence of step calls each shared variable holds the
\* value from the point of the most recent call.
C27_SharedSetBeforeAstep ==
    last.n > 0
        => /\ \A name \in stepobj.shared :
                 /\ last.seen[name] = last.point_in[name]
                 /\ shared_value[name] = heap[last.arg][name]
           /\ last.point_in = heap[last.arg]
           /\ stepobj.cls = "GradientSharedStep"
                 => last.func._extra_are_set /\ stepobj.logp_dlogp_func._extra_are_set

\* a second step of a GradientSharedStep, on a point that differs from the
\* first one at a shared variable
C27_Witness ==
    /\ last.n = 2 /\ stepobj.cls = "GradientSharedStep"
    /\ \E name \in stepobj.shared :
          /\ heap[last.arg][name] # heap[1][name]
          /\ shared_value[name] = heap[last.arg][name]
    /\ last.func._extra_are_set

(***************************************************************************)
(* Further properties of BlockedStep.__new__.                              *)
(***************************************************************************)
\* C28: building a created step again from the arguments __getnewargs_ex__
\* returns yields a single step of the same class bound to the same variable
\* list, never a CompoundStep; the stored arguments of a fan-out sub-step name
\* exactly its one variable, and the stored keyword arguments always hold the
\* resolved blocked and model values.
C28_NewargsRebuild ==
    /\ made.called
          => \A i \in 1..Len(Created(made.ret)) :
                LET stored == getnewargs_ex(Created(made.ret)[i])
                IN  /\ Len(stored.args) >= 1
                    /\ made.ret.kind = "CompoundStep" => stored.args[1] = PyList(<<GivenList[i]>>)
                    /\ made.ret.kind = "step" => stored.args[1] = PyList(GivenList)
                    /\ "blocked" \in DOMAIN stored.kwargs /\ "model" \in DOMAIN stored.kwargs
                    /\ stored.kwargs["blocked"] = PyBool(BlockedInForce)
                    /\ stored.kwargs["model"] = CallContext(made.call)
    /\ made.rebuilt
          => /\ Len(made.again) = Len(Created(made.ret))
             /\ \A i \in 1..Len(made.again) :
                   /\ made.again[i].kind = "step"
                   /\ made.again[i].cls = Created(made.ret)[i].cls
                   /\ Len(made.again[i].newargs.args) >= 1
                   /\ made.again[i].newargs.args[1] = Created(made.ret)[i].newargs.args[1]
                   /\ made.again[i].newargs = Created(made.ret)[i].newargs

\* the sub-steps of an unblocked call over three variables, built again
C28_Witness ==
    /\ made.rebuilt /\ made.ret.kind = "CompoundStep" /\ Len(made.again) = 3
    /\ GivenList[1] # GivenList[3]
    /\ made.again[3].kind = "step"
    /\ made.again[3].newargs.args[1] = PyList(<<GivenList[3]>>)
    /\ ~made.again[3].newargs.kwargs["blocked"].b

\* C30: an empty variable list (positional, as the vars keyword, or from a
\* model without value variables when vars is omitted) raises ValueError and
\* creates no step and no CompoundStep; a single variable that is not a list
\* or tuple is treated as a one-element list and never fans out.
C30_EmptyAndSingle ==
    made.called
        => /\ GivenList = <<>>
                 => /\ made.ret.kind = "raise" /\ made.ret.cls = "ValueError"
                    /\ Created(made.ret) = <<>>
           /\ made.call.given.t \notin {"list", "tuple"}
                 => /\ made.ret.kind = "step"
                    /\ made.ret.newargs.args[1] = PyList(<<made.call.given>>)
                    /\ Len(Created(made.ret)) = 1

\* no vars given, a model without value variables, unblocked
C30_Witness ==
    /\ made.called /\ made.call.how = "model" /\ GivenList = <<>>
    /\ ~BlockedInForce
    /\ made.ret.kind = "raise" /\ made.ret.cls = "ValueError"

(***************************************************************************)
(* Properties of stop_tuning.                                              *)
(***************************************************************************)
Stopped == \E i \in 1..Len(tn.calls) : tn.calls[i] = "stop_tuning"

\* C29: stop_tuning sets tune to False when the step has a tune field and does
\* nothing otherwise (it creates no field); it is idempotent, and step never
\* sets tune back: once stop_tuning has been called tune stays False across
\* every later sequence of step and stop_tuning calls.
C29_TuneStaysOff ==
    /\ DOMAIN tn.self = DOMAIN tn.before
    /\ \A name \in DOMAIN tn.self \ {"tune"} : tn.self[name] = tn.before[name]
    /\ "tune" \in DOMAIN tn.self
          => tn.self["tune"] = (IF Stopped THEN PyBool(FALSE) ELSE tn.before["tune"])

\* tuning was on, stop_tuning was called first, then step, stop_tuning, step
C29_Witness ==
    /\ tn.cls = "ArrayStepShared"
    /\ "tune" \in DOMAIN tn.before /\ tn.before["tune"].b
    /\ tn.calls = <<"stop_tuning", "step", "stop_tuning", "step">>
    /\ ~tn.self["tune"].b

=============================================================================
